---- MODULE Spec2Model ----
(***************************************************************************)
(* Model of go-call-pocket-tts: the one-shot CLI transport (Client.generate *)
(* and runner.run) and the warm HTTP transport (ServerClient).              *)
(***************************************************************************)
EXTENDS Integers, Sequences, FiniteSets, TLC

\* ---------------------------------------------------------------- bounds
MaxCalls == 2            \* concurrent Generate calls
MaxConc  == 1            \* largest Options.Concurrency tried
MaxLen   == 1            \* longest text argument (bytes)
MaxPay   == 3            \* longest stdin payload of a runner.run (bytes)
PipeCap  == 1            \* capacity of an OS pipe (bytes)
MaxOut   == 3            \* most bytes a subprocess writes to stdout

Calls == 1..MaxCalls

\* ---------------------------------------------------------------- text
Chars == {" ", "a"}

IsSpace(c) == c = " "

Texts == UNION {[1..n -> Chars] : n \in 0..MaxLen}

RECURSIVE TrimLeft(_)
TrimLeft(s) == IF s # <<>> /\ IsSpace(Head(s)) THEN TrimLeft(Tail(s)) ELSE s

RECURSIVE TrimRight(_)
TrimRight(s) ==
    IF s # <<>> /\ IsSpace(s[Len(s)]) THEN TrimRight(SubSeq(s, 1, Len(s) - 1)) ELSE s

\* strings.TrimSpace
TrimSpace(s) == TrimRight(TrimLeft(s))

\* mutant: only the empty string is rejected
IsBlankTextM(s) == s = <<>>

\* the input validation of generate / ServerClient.Generate
IsBlankText(s) == TrimSpace(s) = <<>>

\* ---------------------------------------------------------------- errors
\* errors cmd.Start can return, by wrapper type and wrapped cause
StartErrors ==
    { [wrap |-> "exec.Error",   cause |-> "ErrNotFound"],
      [wrap |-> "exec.Error",   cause |-> "EACCES"],
      [wrap |-> "os.PathError", cause |-> "ENOENT"],
      [wrap |-> "os.PathError", cause |-> "EACCES"],
      [wrap |-> "context",      cause |-> "ctx.Err"] }

\* cmd.Start returned nil
StartOk == [wrap |-> "nil", cause |-> "nil"]

\* mutant: the absolute-path ENOENT case is not recognised
isNotFoundM(err) == err.wrap = "exec.Error" /\ err.cause = "ErrNotFound"

isNotFound(err) ==
    IF err.wrap = "exec.Error" THEN err.cause = "ErrNotFound"
    ELSE IF err.wrap = "os.PathError" THEN err.cause = "ENOENT"
    ELSE FALSE

NoResult == [kind |-> "none", code |-> 0, info |-> "", n |-> 0]

ErrEmptyText == [kind |-> "ErrEmptyText", code |-> 0, info |-> "", n |-> 0]

ErrProcessTimeout(stderr) == [kind |-> "ErrProcessTimeout", code |-> 0, info |-> stderr, n |-> 0]

ErrNonZeroExit(k, stderr) == [kind |-> "ErrNonZeroExit", code |-> k, info |-> stderr, n |-> 0]

ErrExecutableNotFound(exe) == [kind |-> "ErrExecutableNotFound", code |-> 0, info |-> exe, n |-> 0]

\* fmt.Errorf("pockettts: <what>: %w", err)
WrappedError(what) == [kind |-> "error", code |-> 0, info |-> what, n |-> 0]

SlotMsg == "context cancelled while waiting for concurrency slot"

\* ---------------------------------------------------------------- state
VARIABLES
    opts,     \* Client.opts: the Options the shared Client was built with
    sem,      \* Client.sem: number of tokens in the buffered channel
    call,     \* one record per Generate call in flight (see IdleCall)
    run,      \* one runner.run invocation in detail (see IdleRun)
    pcm,      \* one output buffer on its way to a WAVResult (see IdlePcm)
    argv,     \* one buildArgs evaluation (see IdleArgv)
    srv,      \* one ServerClient and its server process (see IdleSrv)
    exc,      \* one captured diagnostic text and its excerpt (see IdleExc)
    strm,     \* one subprocess's output streams being captured (see IdleStrm)
    req       \* one POST /tts request being built (see IdleReq)

vars == <<opts, sem, call, run, pcm, argv, srv, exc, strm, req>>

ExecutablePaths == {"", "/opt/pocket-tts"}

\* Options (the fields the control flow of generate and run depends on)
Options == [Concurrency : 0..MaxConc, ExecutablePath : ExecutablePaths]

\* mutant: only a Concurrency of zero leaves the channel out
semIsNilM == opts.Concurrency = 0

\* newClient: c.sem is nil unless opts.Concurrency > 0
semIsNil == ~(opts.Concurrency > 0)

\* runner.run: exe defaults to "pocket-tts"
exeName(path) == IF path = "" THEN "pocket-tts" ELSE path

\* what cmd.Start can return for this executable and context: StartOk or an
\* error.  A name without a path separator is resolved by exec.LookPath
\* (exec.Error); an explicit path fails in fork/exec (os.PathError); a
\* context that is already done makes Start fail before forking.
\* mutant: cmd.Start does not look at the context
StartOutcomesM(path, ctxDone) ==
    (IF path = "" THEN {e \in StartErrors : e.wrap = "exec.Error"} ELSE {})
    \cup {e \in StartErrors : e.wrap = "os.PathError"} \cup {StartOk}

StartOutcomes(path, ctxDone) ==
    LET lookup == IF path = "" THEN {e \in StartErrors : e.wrap = "exec.Error"} ELSE {}
        forked == IF ctxDone
                  THEN {e \in StartErrors : e.wrap = "context"}
                  ELSE {e \in StartErrors : e.wrap = "os.PathError"} \cup {StartOk}
    IN  lookup \cup forked

\* mutant: the error names the configured path, not the resolved name
startErrorM(err, path) ==
    IF isNotFound(err) THEN ErrExecutableNotFound(path)
    ELSE WrappedError("start process")

\* the error run returns when cmd.Start fails with err
startError(err, path) ==
    IF isNotFound(err) THEN ErrExecutableNotFound(exeName(path))
    ELSE WrappedError("start process")

\* exit codes a subprocess chooses; -1 is ExitCode() of a killed process
ExitCodes == {0, 1, 2}

\* mutant: the exit code decides, the context is not consulted
waitResultM(code, ctxDone, nout) ==
    IF code # 0 THEN ErrNonZeroExit(code, "stderr")
    ELSE [kind |-> "runResult", code |-> 0, info |-> "stderr", n |-> nout]

\* run after cmd.Wait: waitErr != nil iff the exit status is not success;
\* a runResult carries the stdout bytes (here: how many)
waitResult(code, ctxDone, nout) ==
    IF code # 0
    THEN IF ctxDone THEN ErrProcessTimeout("stderr")
         ELSE ErrNonZeroExit(code, "stderr")
    ELSE [kind |-> "runResult", code |-> 0, info |-> "stderr", n |-> nout]

\* generate after run: err is passed on, empty stdout is an error, then
\* parseWAVHeader (wavOk: the bytes carry a valid header)
genResult(res, wavOk) ==
    IF res.kind # "runResult" THEN res
    ELSE IF res.n = 0 THEN ErrNonZeroExit(0, "empty stdout")
    ELSE IF wavOk THEN [kind |-> "ok", code |-> 0, info |-> "cli", n |-> res.n]
    ELSE WrappedError("not a readable WAV")

\* ---------------------------------------------------------------- calls
\* a call that has not begun; also the shape of the per-call state
IdleCall ==
    [ pc       |-> "idle",   \* idle, entry, acquire, acquireOwn, run, proc, http, done
      via      |-> "none",   \* none, cli (Client), pkg (Generate), server (ServerClient)
      ctxDone  |-> FALSE,    \* ctx.Done() is closed (until the call returns)
      text     |-> <<>>,     \* the text argument (until it is accepted)
      holds    |-> FALSE,    \* the call put a token into c.sem
      proc     |-> "none",   \* none, running, exited (unreaped), reaped
      spawned  |-> 0,        \* OS processes created by the call
      opened   |-> 0,        \* voice files opened by the call
      requests |-> 0,        \* HTTP requests sent by the call
      aborted  |-> FALSE,    \* history: the call ended on ctx.Done()
      result   |-> NoResult ]

\* the zero Options value, under which runner.run is used on its own
ZeroOptions == [Concurrency |-> 0, ExecutablePath |-> ""]

\* one runner.run invocation; also the shape of its state
IdleRun ==
    [ pc        |-> "idle",   \* idle, start, wgwait, wait, done
      path      |-> "",       \* runner.executablePath
      ctxDone   |-> FALSE,    \* ctx.Done() is closed / ctx.Err() != nil
      startErr  |-> StartOk,  \* what cmd.Start returned
      proc      |-> "none",   \* none, running, exited (unreaped), reaped
      exitCode  |-> 0,        \* cmd.ProcessState.ExitCode(); -1 if killed
      hangs     |-> FALSE,    \* the child never exits by itself
      killed    |-> "no",     \* no, ctx (context watcher), run (stdin error)
      spawned   |-> 0,        \* OS processes created by the invocation
      pipeOpen  |-> FALSE,    \* parent's end of the stdin pipe is open
      writer    |-> "none",   \* stdin goroutine: none, running, ok, err
      left      |-> 0,        \* payload bytes not yet written
      pipe      |-> 0,        \* bytes buffered in the stdin pipe
      stdinRd   |-> FALSE,    \* the child's read end of stdin is open
      outLeft   |-> 0,        \* bytes the child has still to write to stdout
      outPipe   |-> 0,        \* bytes buffered in the stdout pipe
      stdoutBuf |-> 0,        \* bytes copied into stdoutBuf
      ctxAtExit |-> FALSE,    \* history: ctx had fired when the child ended
      result    |-> NoResult, \* what run returned
      gen       |-> NoResult ]\* what generate returned after run

\* ---------------------------------------------------------------- WAV
\* bytes appended after a built header
MaxTail == 1

\* putU16, putU32: little-endian bytes of v
putU16(v) == <<v % 256, (v \div 256) % 256>>

putU32(v) ==
    <<v % 256, (v \div 256) % 256, (v \div 65536) % 256, (v \div 16777216) % 256>>

\* the chunk identifiers "RIFF", "WAVE", "fmt ", "data" and the "MP3 " of
\* TestParseWAVHeader_NotWAV, as bytes
RiffID == <<82, 73, 70, 70>>

WavFormatID == <<87, 65, 86, 69>>

FmtID == <<102, 109, 116, 32>>

DataFormatID == <<100, 97, 116, 97>>

Mp3ID == <<77, 80, 51, 32>>

\* makeWAVHeader: the minimal 44-byte PCM header (the sample rates, channel
\* counts and bit depths drawn below keep every product inside uint32)
makeWAVHeader(sampleRate, channels, bitsPerSample) ==
    RiffID \o putU32(36) \o WavFormatID \o FmtID \o putU32(16) \o putU16(1)
      \o putU16(channels) \o putU32(sampleRate)
      \o putU32((sampleRate * channels * bitsPerSample) \div 8)
      \o putU16(((channels * bitsPerSample) % 65536) \div 8)
      \o putU16(bitsPerSample) \o DataFormatID \o putU32(0)

\* n bytes of data from offset off (0-based), as far as they exist
bytesAt(data, off, n) ==
    SubSeq(data, off + 1, IF off + n <= Len(data) THEN off + n ELSE Len(data))

\* the little-endian value of a byte sequence
RECURSIVE leValue(_)
leValue(b) == IF b = <<>> THEN 0 ELSE b[1] + 256 * leValue(Tail(b))

\* Chunk.ReadLE of an n-byte field at position pos of the chunk that starts at
\* off and has size bytes: 0 is left in the field when the chunk is fully
\* read or the data ends
readLE(data, off, size, pos, n) ==
    IF pos < size /\ off + pos + n <= Len(data)
    THEN leValue(bytesAt(data, off + pos, n))
    ELSE 0

\* what the decoder holds after ReadInfo
DecoderInfo(e, sr, ch, bd) == [err |-> e, SampleRate |-> sr, NumChans |-> ch, BitDepth |-> bd]

\* Chunk.DecodeWavHeader on the fmt chunk: format tag, channels, sample rate,
\* byte rate, block align, bits per sample, read in this order
DecodeWavHeader(data, off, size) ==
    DecoderInfo("nil", readLE(data, off, size, 4, 4), readLE(data, off, size, 2, 2),
                readLE(data, off, size, 14, 2))

\* the chunk loop of the decoder from offset off: NextChunk, decode the fmt
\* chunk and stop, drain any other chunk; when no chunk header is left the
\* loop ends with nothing decoded and no error
RECURSIVE nextChunks(_, _)
nextChunks(data, off) ==
    IF off + 8 > Len(data) THEN DecoderInfo("nil", 0, 0, 0)
    ELSE LET size == leValue(bytesAt(data, off + 4, 4))
             padded == IF size % 2 = 1 THEN size + 1 ELSE size
         IN  IF bytesAt(data, off, 4) = FmtID
             THEN DecodeWavHeader(data, off + 8, padded)
             ELSE nextChunks(data, off + 8 + padded)

\* wav.NewDecoder(bytes.NewReader(data)).ReadInfo(): the RIFF identifier and
\* size, the form type (read, not compared), then the chunk loop
ReadInfo(data) ==
    IF Len(data) < 8 THEN DecoderInfo("EOF", 0, 0, 0)
    ELSE IF bytesAt(data, 0, 4) # RiffID THEN DecoderInfo("format not supported", 0, 0, 0)
    ELSE IF Len(data) < 12 THEN DecoderInfo("EOF", 0, 0, 0)
    ELSE nextChunks(data, 12)

\* what parseWAVHeader returns
Header(e, sr, ch, bps) ==
    [err |-> e, sampleRate |-> sr, channels |-> ch, bitsPerSample |-> bps]

NoHeader == Header("none", 0, 0, 0)

\* mutant: channels and bit depth are returned in each other's place
parseWAVHeaderSwapM(data) ==
    IF Len(data) = 0 THEN Header("WAV output too short", 0, 0, 0)
    ELSE LET dec == ReadInfo(data)
         IN  IF dec.err # "nil" THEN Header("not a readable WAV", 0, 0, 0)
             ELSE IF dec.SampleRate = 0 \/ dec.NumChans = 0 \/ dec.BitDepth = 0
             THEN Header("metadata incomplete", 0, 0, 0)
             ELSE Header("nil", dec.SampleRate, dec.BitDepth, dec.NumChans)

\* parseWAVHeader
parseWAVHeader(data) ==
    IF Len(data) = 0 THEN Header("WAV output too short", 0, 0, 0)
    ELSE LET dec == ReadInfo(data)
         IN  IF dec.err # "nil" THEN Header("not a readable WAV", 0, 0, 0)
             ELSE IF dec.SampleRate = 0 \/ dec.NumChans = 0 \/ dec.BitDepth = 0
             THEN Header("metadata incomplete", 0, 0, 0)
             ELSE Header("nil", dec.SampleRate, dec.NumChans, dec.BitDepth)

\* the buffers handed to parseWAVHeader: a header built by makeWAVHeader, one
\* signature possibly overwritten, cut after cut bytes, tail appended
SampleRates == {0, 24000, 65536}

ChannelCounts == {0, 1, 256}

BitDepths == {0, 16}

Damages == {"none", "riff", "wave", "fmt"}

HeaderLen == 44

Tails == UNION {[1..n -> {0, 255}] : n \in 0..MaxTail}

\* ServerClient.Generate keeps this many bytes of an error response's body
ErrBodyLimit == 512

\* how far past ErrBodyLimit the long bodies reach
MaxOver == 1

\* tails that bring a whole header to the length of ErrBodyLimit, one byte
\* less, and up to MaxOver bytes more
LongTails ==
    {[k \in 1..(ErrBodyLimit - HeaderLen + d) |-> k % 256] : d \in -1..MaxOver}

Sources ==
    {s \in [sr : SampleRates, ch : ChannelCounts, bps : BitDepths,
            damage : Damages, cut : 0..HeaderLen, tail : Tails \cup LongTails] :
        /\ s.tail # <<>> => s.cut = HeaderLen
        /\ s.tail \in LongTails => s.damage = "none"}

NoSource == [sr |-> 0, ch |-> 0, bps |-> 0, damage |-> "none", cut |-> 0, tail |-> <<>>]

\* h with the four bytes from offset off replaced by id
overwrite(h, off, id) ==
    [k \in 1..Len(h) |-> IF k > off /\ k <= off + 4 THEN id[k - off] ELSE h[k]]

Buffer(s) ==
    LET h == makeWAVHeader(s.sr, s.ch, s.bps)
        d == IF s.damage = "riff" THEN overwrite(h, 0, Mp3ID)
             ELSE IF s.damage = "wave" THEN overwrite(h, 8, Mp3ID)
             ELSE IF s.damage = "fmt" THEN overwrite(h, 12, Mp3ID)
             ELSE h
    IN  SubSeq(d, 1, s.cut) \o s.tail

\* no *WAVResult (nil)
NilWav ==
    [isNil |-> TRUE, Data |-> <<>>, SampleRate |-> 0, Channels |-> 0, BitsPerSample |-> 0]

\* an output buffer before anything was done with it; also the shape of pcm
IdlePcm ==
    [ pc      |-> "idle",    \* idle, input, done
      via     |-> "none",    \* none, parse, cli, server
      src     |-> NoSource,  \* how the buffer was built
      data    |-> <<>>,      \* the bytes: stdout of the CLI, body of the response
      code    |-> 0,         \* exit code of the subprocess, status of the response
      ctxDone |-> FALSE,     \* ctx.Err() != nil when run classified the exit
      got     |-> 0,         \* bytes the response body delivered before it ended
      hdr     |-> NoHeader,  \* what parseWAVHeader returned
      result  |-> NoResult,  \* the error (or success) returned
      errBody |-> <<>>,      \* the Stderr bytes of the error for a non-200 status
      wav     |-> NilWav,    \* the *WAVResult returned
      logWriter |-> FALSE,   \* opts.LogWriter != nil
      elapsed |-> 0,         \* history: wall-clock time the call took
      duration |-> 0,        \* Stats.Duration of the *WAVResult (0: never assigned)
      summary |-> <<>> ]     \* the summary lines written to opts.LogWriter

\* ---------------------------------------------------------------- args
\* float64 fields are held in tenths (8 is 0.8); strconv.FormatFloat(f, 'f',
\* -1, 64) prints the shortest decimal: no fraction for a whole number
formatFloat(f) ==
    LET a == IF f < 0 THEN -f ELSE f
    IN  (IF f < 0 THEN "-" ELSE "") \o ToString(a \div 10)
          \o (IF a % 10 = 0 THEN "" ELSE "." \o ToString(a % 10))

\* fmt.Sprintf("%d", n)
formatInt(n) == ToString(n)

\* the Options values buildArgs is evaluated on
ArgOptions ==
    [ Voice : {"", "mimi", "--quiet"}, Config : {"", "/tmp/cfg.json"},
      Temperature : {0, 8, 20}, LSDDecodeSteps : {0, 32},
      NoiseClamp : {0, 15}, EOSThreshold : {0, 5},
      FramesAfterEOS : {0, 4}, MaxTokens : {0, 512}, Quiet : BOOLEAN,
      ExecutablePath : ExecutablePaths, LogWriter : {"nil", "w"},
      Concurrency : 0..MaxConc ]

\* mutant: the pair is appended whatever the field holds
optArgM(flag, isZero, value) == <<flag, value>>

\* if field != zero { args = append(args, flag, value) }
optArg(flag, isZero, value) == IF isZero THEN <<>> ELSE <<flag, value>>

\* mutant: --noise-clamp is given the EOS threshold
buildArgsM(o) ==
    <<"generate", "--text", "-", "--output-path", "-">>
      \o optArg("--voice", o.Voice = "", o.Voice)
      \o optArg("--config", o.Config = "", o.Config)
      \o optArg("--temperature", o.Temperature = 0, formatFloat(o.Temperature))
      \o optArg("--lsd-decode-steps", o.LSDDecodeSteps = 0, formatInt(o.LSDDecodeSteps))
      \o optArg("--noise-clamp", o.NoiseClamp = 0, formatFloat(o.EOSThreshold))
      \o optArg("--eos-threshold", o.EOSThreshold = 0, formatFloat(o.EOSThreshold))
      \o optArg("--frames-after-eos", o.FramesAfterEOS = 0, formatInt(o.FramesAfterEOS))
      \o optArg("--max-tokens", o.MaxTokens = 0, formatInt(o.MaxTokens))
      \o (IF o.Quiet THEN <<"--quiet">> ELSE <<>>)

\* Client.buildArgs
buildArgs(o) ==
    <<"generate", "--text", "-", "--output-path", "-">>
      \o optArg("--voice", o.Voice = "", o.Voice)
      \o optArg("--config", o.Config = "", o.Config)
      \o optArg("--temperature", o.Temperature = 0, formatFloat(o.Temperature))
      \o optArg("--lsd-decode-steps", o.LSDDecodeSteps = 0, formatInt(o.LSDDecodeSteps))
      \o optArg("--noise-clamp", o.NoiseClamp = 0, formatFloat(o.NoiseClamp))
      \o optArg("--eos-threshold", o.EOSThreshold = 0, formatFloat(o.EOSThreshold))
      \o optArg("--frames-after-eos", o.FramesAfterEOS = 0, formatInt(o.FramesAfterEOS))
      \o optArg("--max-tokens", o.MaxTokens = 0, formatInt(o.MaxTokens))
      \o (IF o.Quiet THEN <<"--quiet">> ELSE <<>>)

\* Options{}
NoArgOptions ==
    [ Voice |-> "", Config |-> "", Temperature |-> 0, LSDDecodeSteps |-> 0,
      NoiseClamp |-> 0, EOSThreshold |-> 0, FramesAfterEOS |-> 0,
      MaxTokens |-> 0, Quiet |-> FALSE, ExecutablePath |-> "",
      LogWriter |-> "nil", Concurrency |-> 0 ]

\* no buildArgs evaluation; also the shape of argv
IdleArgv ==
    [ pc   |-> "idle",        \* idle, input, done
      o    |-> NoArgOptions,  \* c.opts
      args |-> <<>> ]         \* the argument list returned

\* ---------------------------------------------------------------- server process
\* Start and Stop calls on one ServerClient, probes of one Start call
MaxStarts == 2

MaxStops == 2

MaxProbes == 2

\* a ServerClient built by NewServerClient; also the shape of srv
IdleSrv ==
    [ pc          |-> "idle",   \* Start: idle (not running), poll (loop top), probe
      proc        |-> "none",   \* process of s.proc: none (s.proc == nil),
                                \* running, exited (not waited for), reaped
      external    |-> FALSE,    \* another server answers on the address
      ctxDone     |-> FALSE,    \* the ctx of the latest Start call is done
      expired     |-> FALSE,    \* the deadline of the Start call has passed
      probes      |-> 0,        \* probes issued by the Start call
      procAtIssue |-> "none",   \* history: proc when the latest probe was issued
      okInTime    |-> FALSE,    \* history: a probe returned 200 before the deadline
      procAtRet   |-> "none",   \* history: proc when Start returned
      result      |-> "none",   \* what the latest Start returned
      starts      |-> 0,        \* Start calls
      spawned     |-> 0,        \* processes created
      orphans     |-> 0,        \* running processes whose handle was overwritten
      stops       |-> 0,        \* Stop calls
      stop        |-> "none",   \* what the latest Stop returned
      healthResp  |-> -1,       \* answer to the latest direct Health call (-1: none)
      health      |-> "none",   \* what that Health call returned
      gen         |-> "none",   \* what the latest direct Generate call returned
      startErr    |-> StartOk ] \* what cmd.Start returned in the latest Start

\* ---------------------------------------------------------------- excerpt
\* run keeps this many bytes of the subprocess's stderr for its errors
ExcerptLimit == 512

\* the string literal truncate puts before a shortened text, byte by byte
Ellipsis == <<195, 162, 226, 130, 172, 194, 166>>

\* mutant: the first n bytes are kept
truncateM(s, n) ==
    IF Len(s) <= n THEN s ELSE Ellipsis \o SubSeq(s, 1, n)

\* truncate: s, or the literal followed by the last n bytes of s
truncate(s, n) ==
    IF Len(s) <= n THEN s ELSE Ellipsis \o SubSeq(s, Len(s) - n + 1, Len(s))

\* what a subprocess may have written to stderr: every length up to MaxOver
\* bytes past ExcerptLimit
Stderrs == {[k \in 1..n |-> k % 256] : n \in 0..(ExcerptLimit + MaxOver)}

\* a captured stderr before run returned; also the shape of exc
IdleExc ==
    [ pc      |-> "idle",    \* idle, input, done
      s       |-> <<>>,      \* stderrBuf.String() when cmd.Wait returned
      code    |-> 0,         \* the exit code cmd.Wait saw (-1: killed)
      ctxDone |-> FALSE,     \* ctx.Err() != nil then
      stderr  |-> <<>>,      \* res.stderr, the Stderr field of run's error
      result  |-> NoResult ] \* what run returned

\* ---------------------------------------------------------------- streams
\* how many bytes a subprocess of the stream specification writes
MaxWrites == 3

\* file descriptors of the subprocess's output streams
Stdout == 1

Stderr == 2

\* what a subprocess writes: byte k of its output goes to stdout or stderr
Programs ==
    UNION {{[k \in 1..n |-> [fd |-> f[k], b |-> k]] : f \in [1..n -> {Stdout, Stderr}]} :
              n \in 0..MaxWrites}

\* the capture of one subprocess's output by run, before the process is
\* started; also the shape of strm
IdleStrm ==
    [ pc        |-> "idle",    \* idle, wgwait, wait, done
      logWriter |-> FALSE,     \* r.logWriter != nil
      prog      |-> <<>>,      \* what the child has still to write
      child     |-> "none",    \* none, running, exited
      code      |-> 0,         \* its exit code (-1: killed)
      ctxDone   |-> FALSE,     \* ctx.Err() != nil
      writer    |-> "none",    \* stdin goroutine: none, running, ok, err
      outPipe   |-> <<>>,      \* bytes in the stdout pipe
      errPipe   |-> <<>>,      \* bytes in the stderr pipe
      stdoutBuf |-> <<>>,      \* stdoutBuf
      stderrBuf |-> <<>>,      \* stderrBuf
      log       |-> <<>>,      \* bytes written to r.logWriter
      wroteOut  |-> <<>>,      \* history: bytes the child wrote to stdout
      wroteErr  |-> <<>>,      \* history: bytes the child wrote to stderr
      stdout    |-> <<>>,      \* res.stdout
      stderr    |-> <<>>,      \* res.stderr, the Stderr field of run's error
      result    |-> NoResult ] \* what run returned

\* ---------------------------------------------------------------- request
\* values of ServerGenerateOptions.VoiceURL
VoiceURLs == {"", "http://h/v.wav", "https://h/v.wav", "hf://o/v", "hf://o/w"}

\* values of ServerGenerateOptions.VoiceWAVPath
VoicePaths == {"", "v.wav", "dir/v.wav", "/abs/v.safetensors"}

\* filepath.Base on VoicePaths
Base(path) ==
    IF path = "dir/v.wav" THEN "v.wav"
    ELSE IF path = "/abs/v.safetensors" THEN "v.safetensors"
    ELSE path

\* the ServerGenerateOptions a request is built from
RequestOptions == [VoiceURL : VoiceURLs, VoiceWAVPath : VoicePaths]

\* the zero ServerGenerateOptions, which stands in for a nil opts
ZeroRequestOptions == [VoiceURL |-> "", VoiceWAVPath |-> ""]

\* what os.Open finds at VoiceWAVPath: no file, or a file and its bytes
NoFile == [exists |-> FALSE, bytes |-> <<>>]

VoiceFiles == {NoFile} \cup {[exists |-> TRUE, bytes |-> b] : b \in {<<>>, <<82>>}}

\* a ServerClient.Generate call before it is made; also the shape of req
IdleReq ==
    [ pc        |-> "idle",    \* idle, input, done
      text      |-> <<>>,      \* the text argument
      nilOpts   |-> FALSE,     \* opts == nil
      o         |-> ZeroRequestOptions, \* *opts otherwise
      parts     |-> {},        \* names of the parts of the multipart body
      textField |-> <<>>,      \* value of the text field
      voiceURL  |-> "",        \* value of the voice_url field
      fileName  |-> "",        \* file name of the voice_wav part
      fileBytes |-> <<>>,      \* content of the voice_wav part
      file      |-> NoFile,    \* what os.Open found, if it was called
      opened    |-> 0,         \* os.Open calls
      requests  |-> 0,         \* s.http.Do calls
      result    |-> "none" ]   \* none, sent (Do was called), or the error returned

\* a shared Client built by NewClient(opts); no call has begun
Init ==
    /\ opts \in Options
    /\ sem = 0
    /\ call = [i \in Calls |-> IdleCall]
    /\ run = IdleRun
    /\ pcm = IdlePcm
    /\ argv = IdleArgv
    /\ srv = IdleSrv
    /\ exc = IdleExc
    /\ strm = IdleStrm
    /\ req = IdleReq

\* mutant: the slot is given back on the success path only
deferReleaseM(i, res) == IF call[i].holds /\ res.kind = "ok" THEN sem - 1 ELSE sem

\* the deferred `<-c.sem` of generate: the channel after the call returns
deferRelease(i, res) == IF call[i].holds THEN sem - 1 ELSE sem

\* the call returns res with its state c: the deferred release runs, and
\* the caller's context is no longer followed
Return(i, res, c) ==
    /\ sem' = deferRelease(i, res)
    /\ call' = [call EXCEPT ![i] =
                   [c EXCEPT !.pc = "done", !.result = res, !.holds = FALSE,
                             !.ctxDone = FALSE]]
    /\ UNCHANGED <<opts, run, pcm, argv, srv, exc, strm, req>>

\* the caller's context is cancelled or its deadline passes.  Validation
\* does not read ctx: a context that is done before the call, or becomes so
\* during validation, is one that is done when the call next looks at it.
Cancel(i) ==
    /\ call[i].pc \in {"acquire", "acquireOwn", "run", "proc", "http"}
    /\ ~call[i].ctxDone
    /\ call' = [call EXCEPT ![i].ctxDone = TRUE]
    /\ UNCHANGED <<opts, sem, run, pcm, argv, srv, exc, strm, req>>

\* Client.Generate, Generate or ServerClient.Generate is called with text t
Begin(i, v, t) ==
    /\ call[i].pc = "idle"
    /\ call' = [call EXCEPT ![i].pc = "entry", ![i].via = v, ![i].text = t]
    /\ UNCHANGED <<opts, sem, run, pcm, argv, srv, exc, strm, req>>

\* generate: input validation.  An accepted text is from here on only the
\* stdin payload, whose bytes are not followed at this level.
Generate(i) ==
    /\ call[i].pc = "entry"
    /\ call[i].via = "cli"
    /\ IF IsBlankText(call[i].text)
       THEN Return(i, ErrEmptyText, call[i])
       ELSE /\ call' = [call EXCEPT ![i].text = <<>>,
                                    ![i].pc = IF semIsNil THEN "run" ELSE "acquire"]
            /\ UNCHANGED <<opts, sem, run, pcm, argv, srv, exc, strm, req>>

\* mutant: the send is not bounded by the channel's capacity
slotFreeM == sem <= opts.Concurrency

\* the send `c.sem <- struct{}{}` can proceed
slotFree == sem < opts.Concurrency

\* select case c.sem <- struct{}{}
AcquireSlot(i) ==
    /\ call[i].pc = "acquire"
    /\ slotFree
    /\ sem' = sem + 1
    /\ call' = [call EXCEPT ![i].holds = TRUE, ![i].pc = "run"]
    /\ UNCHANGED <<opts, run, pcm, argv, srv, exc, strm, req>>

\* mutant: the wait for a slot reports a plain context error
acquireCancelledM == WrappedError("context canceled")

\* what the ctx.Done() case of the select returns
acquireCancelled == ErrProcessTimeout(SlotMsg)

\* select case <-ctx.Done()
AcquireCancelled(i) ==
    /\ call[i].pc = "acquire"
    /\ call[i].ctxDone
    /\ Return(i, acquireCancelled, [call[i] EXCEPT !.aborted = TRUE])

\* generate after admission: buildArgs, runner{}, r.run up to cmd.Start
StartProcess(i, out) ==
    /\ call[i].pc = "run"
    /\ out \in StartOutcomes(opts.ExecutablePath, call[i].ctxDone)
    /\ IF out = StartOk
       THEN /\ call' = [call EXCEPT ![i].pc = "proc", ![i].proc = "running",
                                    ![i].spawned = @ + 1]
            /\ UNCHANGED <<opts, sem, run, pcm, argv, srv, exc, strm, req>>
       ELSE Return(i, startError(out, opts.ExecutablePath), call[i])

\* r.run from the started process to its return when the stdin write
\* succeeded, then the rest of generate.  code: the exit status seen by
\* cmd.Wait (-1: killed by the context watcher); nout: stdout bytes.
FinishProcess(i, code, nout, wavOk) ==
    /\ call[i].pc = "proc"
    /\ code = -1 => call[i].ctxDone
    /\ Return(i, genResult(waitResult(code, call[i].ctxDone, nout), wavOk),
              [call[i] EXCEPT !.proc = "reaped", !.aborted = (code = -1)])

\* mutant: after a failed stdin write the subprocess is started again
StdinFailedM(i) ==
    /\ call[i].pc = "proc"
    /\ call' = [call EXCEPT ![i].pc = "run", ![i].proc = "exited"]
    /\ UNCHANGED <<opts, sem, run, pcm, argv, srv, exc, strm, req>>

\* r.run when the stdin write failed: cmd.Process.Kill() and return,
\* without cmd.Wait
StdinFailed(i) ==
    /\ call[i].pc = "proc"
    /\ Return(i, WrappedError("write stdin"), [call[i] EXCEPT !.proc = "exited"])

\* the package-level Generate: newClient(opts), then generate on the new
\* Client up to its select.  The Client and its channel are the call's own.
PkgGenerate(i) ==
    /\ call[i].pc = "entry"
    /\ call[i].via = "pkg"
    /\ IF IsBlankText(call[i].text)
       THEN Return(i, ErrEmptyText, call[i])
       ELSE /\ call' = [call EXCEPT ![i].text = <<>>,
                                    ![i].pc = IF semIsNil THEN "run" ELSE "acquireOwn"]
            /\ UNCHANGED <<opts, sem, run, pcm, argv, srv, exc, strm, req>>

\* tokens in the channel of the Client that the package-level call i made:
\* its own, from its acquisition to its return
ownSem(i) ==
    IF call[i].via = "pkg" /\ ~semIsNil /\ call[i].pc \in {"run", "proc"} THEN 1 ELSE 0

\* mutant: the package-level calls send on the channel of the shared Client
PkgAcquireM(i) ==
    /\ call[i].pc = "acquireOwn"
    /\ slotFree
    /\ sem' = sem + 1
    /\ call' = [call EXCEPT ![i].holds = TRUE, ![i].pc = "run"]
    /\ UNCHANGED <<opts, run, pcm, argv, srv, exc, strm, req>>

\* select case c.sem <- struct{}{} on the call's own channel; its deferred
\* receive is on that channel too, so the shared c.sem is not touched
PkgAcquire(i) ==
    /\ call[i].pc = "acquireOwn"
    /\ ownSem(i) < opts.Concurrency
    /\ call' = [call EXCEPT ![i].pc = "run"]
    /\ UNCHANGED <<opts, sem, run, pcm, argv, srv, exc, strm, req>>

\* select case <-ctx.Done() of a package-level call
PkgAcquireCancelled(i) ==
    /\ call[i].pc = "acquireOwn"
    /\ call[i].ctxDone
    /\ Return(i, acquireCancelled, [call[i] EXCEPT !.aborted = TRUE])

\* ---------------------------------------------------------------- server
\* ServerGenerateOptions
ServerGenerateOptions == [VoiceURL : {"", "hf://v"}, VoiceWAVPath : {"", "v.wav"}]

\* mutant: every voice that is set is sent
buildTTSRequestM(o) ==
    {"text"} \cup (IF o.VoiceURL # "" THEN {"voice_url"} ELSE {})
             \cup (IF o.VoiceWAVPath # "" THEN {"voice_wav"} ELSE {})

\* buildTTSRequest: the form fields of the multipart body
buildTTSRequest(o) ==
    {"text"} \cup (IF o.VoiceURL # "" THEN {"voice_url"}
                   ELSE IF o.VoiceWAVPath # "" THEN {"voice_wav"} ELSE {})

\* buildTTSRequest opens the voice file
opensVoiceFile(o) == o.VoiceURL = "" /\ o.VoiceWAVPath # ""

\* ServerClient.Generate: validation, buildTTSRequest, and the request
\* handed to http.Client.Do.  openOk: os.Open of the voice file succeeds.
ServerGenerate(i, o, openOk) ==
    /\ call[i].pc = "entry"
    /\ call[i].via = "server"
    /\ IF IsBlankText(call[i].text)
       THEN /\ openOk
            /\ o = [VoiceURL |-> "", VoiceWAVPath |-> ""]
            /\ Return(i, ErrEmptyText, call[i])
       ELSE IF opensVoiceFile(o) /\ ~openOk
       THEN Return(i, WrappedError("open voice file"),
                   [call[i] EXCEPT !.text = <<>>, !.opened = 1])
       ELSE /\ (~opensVoiceFile(o)) => openOk
            /\ call' = [call EXCEPT ![i] =
                   [@ EXCEPT !.text = <<>>, !.pc = "http",
                             !.opened = IF opensVoiceFile(o) THEN 1 ELSE 0,
                             !.requests = 1]]
            /\ UNCHANGED <<opts, sem, run, pcm, argv, srv, exc, strm, req>>

\* HTTP status codes a server answers with
Statuses == {200, 500}

\* what the body of a 200 response holds: nothing, a WAV file, other bytes
Bodies == {"empty", "wav", "junk"}

\* http.Client.Do fails: connection error, or the request's ctx is done
HttpFail(i) ==
    /\ call[i].pc = "http"
    /\ Return(i, WrappedError("TTS request"),
              [call[i] EXCEPT !.aborted = call[i].ctxDone])

\* reading the body of a 200 response fails (the ctx fires, the peer resets)
HttpReadFail(i) ==
    /\ call[i].pc = "http"
    /\ Return(i, WrappedError("read TTS response"),
              [call[i] EXCEPT !.aborted = call[i].ctxDone])

\* ServerClient.Generate from the response on: status check, io.ReadAll,
\* parseWAVHeader
httpResult(status, body) ==
    IF status # 200 THEN ErrNonZeroExit(status, "body")
    ELSE IF body = "empty" THEN WrappedError("WAV output too short")
    ELSE IF body = "junk" THEN WrappedError("not a readable WAV")
    ELSE [kind |-> "ok", code |-> 0, info |-> "server", n |-> 1]

\* the server answers with status and body
HttpResponse(i, status, body) ==
    /\ call[i].pc = "http"
    /\ Return(i, httpResult(status, body), call[i])

Next ==
    \E i \in Calls :
        \/ Cancel(i)
        \/ \E v \in {"cli", "server"}, t \in Texts : Begin(i, v, t)
        \/ Generate(i)
        \/ AcquireSlot(i)
        \/ AcquireCancelled(i)
        \/ \E out \in StartErrors \cup {StartOk} : StartProcess(i, out)
        \/ \E code \in ExitCodes \cup {-1}, nout \in 0..1, ok \in BOOLEAN :
              FinishProcess(i, code, nout, ok)
        \/ StdinFailed(i)
        \/ \E o \in ServerGenerateOptions, ok \in BOOLEAN : ServerGenerate(i, o, ok)
        \/ HttpFail(i)
        \/ HttpReadFail(i)
        \/ \E st \in Statuses, b \in Bodies : HttpResponse(i, st, b)

Spec == Init /\ [][Next]_vars

\* ---------------------------------------------------------------- gate
\* the Options of the Clients whose admission is followed: Concurrency from
\* negative to MaxConc, the default executable
GateOptions == [Concurrency : -1..MaxConc, ExecutablePath : {""}]

\* a shared Client built by NewClient(opts) with opts from GateOptions
InitGate ==
    /\ opts \in GateOptions
    /\ sem = 0
    /\ call = [i \in Calls |-> IdleCall]
    /\ run = IdleRun
    /\ pcm = IdlePcm
    /\ argv = IdleArgv
    /\ srv = IdleSrv
    /\ exc = IdleExc
    /\ strm = IdleStrm
    /\ req = IdleReq

\* Client.Generate from its call to its return
ClientCall(i) ==
    \/ \E t \in Texts : Begin(i, "cli", t)
    \/ Generate(i)
    \/ AcquireSlot(i)
    \/ AcquireCancelled(i)
    \/ \E out \in StartErrors \cup {StartOk} : StartProcess(i, out)
    \/ \E code \in ExitCodes \cup {-1}, nout \in 0..1, ok \in BOOLEAN :
          FinishProcess(i, code, nout, ok)
    \/ StdinFailed(i)

NextGate == \E i \in Calls : Cancel(i) \/ ClientCall(i)

SpecGate == InitGate /\ [][NextGate]_vars

\* the package-level Generate from its call to the end of its select
PkgCall(i) ==
    \/ \E t \in Texts : Begin(i, "pkg", t)
    \/ PkgGenerate(i)
    \/ PkgAcquire(i)
    \/ PkgAcquireCancelled(i)

\* calls through the shared Client and package-level calls with the same
\* Options, side by side
NextPkg == \E i \in Calls : Cancel(i) \/ ClientCall(i) \/ PkgCall(i)

SpecPkg == InitGate /\ [][NextPkg]_vars

\* a call that was made goes on until it returns: goroutines are scheduled,
\* cmd.Start returns, and r.run returns; a sender parked on c.sem is woken
\* by the runtime when receives keep making room (strong fairness: a slot
\* that is taken by another sender does not count against the waiter)
FairGate ==
    /\ SpecGate
    /\ \A i \in Calls :
          /\ WF_vars(Generate(i))
          /\ SF_vars(AcquireSlot(i))
          /\ WF_vars(\E out \in StartErrors \cup {StartOk} : StartProcess(i, out))
          /\ WF_vars(\/ \E code \in ExitCodes \cup {-1}, nout \in 0..1, ok \in BOOLEAN :
                           FinishProcess(i, code, nout, ok)
                     \/ StdinFailed(i))

\* ---------------------------------------------------------------- runner.run
\* a runner.run invocation on its own, as the package's tests make it
InitRunner ==
    /\ opts = ZeroOptions
    /\ sem = 0
    /\ call = [i \in Calls |-> IdleCall]
    /\ run = IdleRun
    /\ pcm = IdlePcm
    /\ argv = IdleArgv
    /\ srv = IdleSrv
    /\ exc = IdleExc
    /\ strm = IdleStrm
    /\ req = IdleReq

\* the context given to run is cancelled or its deadline passes
RunCancel ==
    /\ run.pc # "done"
    /\ ~run.ctxDone
    /\ run' = [run EXCEPT !.ctxDone = TRUE]
    /\ UNCHANGED <<opts, sem, call, pcm, argv, srv, exc, strm, req>>

\* r.run(ctx, args, stdinPayload) is called on runner{executablePath: p}
\* with a payload of n bytes
Invoke(p, n) ==
    /\ run.pc = "idle"
    /\ run' = [run EXCEPT !.pc = "start", !.path = p, !.left = n]
    /\ UNCHANGED <<opts, sem, call, pcm, argv, srv, exc, strm, req>>

\* run up to cmd.Start: CommandContext, StdinPipe, the output buffers.
\* On failure os/exec closes both ends of the stdin pipe and run returns;
\* on success the child (which will write m bytes to stdout and, unless h,
\* exit by itself) and the stdin goroutine are running.
RunStart(out, m, h) ==
    /\ run.pc = "start"
    /\ out \in StartOutcomes(run.path, run.ctxDone)
    /\ IF out = StartOk
       THEN run' = [run EXCEPT !.pc = "wgwait", !.proc = "running",
                               !.spawned = @ + 1, !.pipeOpen = TRUE,
                               !.writer = "running", !.stdinRd = TRUE,
                               !.outLeft = m, !.hangs = h]
       ELSE /\ m = 0 /\ ~h
            /\ run' = [run EXCEPT !.pc = "done", !.startErr = out,
                                  !.result = startError(out, run.path)]
    /\ UNCHANGED <<opts, sem, call, pcm, argv, srv, exc, strm, req>>

\* stdin goroutine: stdinPipe.Write moves a byte into the pipe buffer
WriterWrite ==
    /\ run.writer = "running"
    /\ run.left > 0
    /\ run.stdinRd
    /\ run.pipe < PipeCap
    /\ run' = [run EXCEPT !.left = @ - 1, !.pipe = @ + 1]
    /\ UNCHANGED <<opts, sem, call, pcm, argv, srv, exc, strm, req>>

\* stdin goroutine: Write returned nil; deferred Close and wg.Done
WriterDone ==
    /\ run.writer = "running"
    /\ run.left = 0
    /\ run' = [run EXCEPT !.writer = "ok", !.pipeOpen = FALSE]
    /\ UNCHANGED <<opts, sem, call, pcm, argv, srv, exc, strm, req>>

\* stdin goroutine: Write failed with EPIPE (no reader is left);
\* deferred Close and wg.Done
WriterFail ==
    /\ run.writer = "running"
    /\ run.left > 0
    /\ ~run.stdinRd
    /\ run' = [run EXCEPT !.writer = "err", !.pipeOpen = FALSE]
    /\ UNCHANGED <<opts, sem, call, pcm, argv, srv, exc, strm, req>>

\* the subprocess reads a byte of its stdin
ChildRead ==
    /\ run.proc = "running"
    /\ run.stdinRd
    /\ run.pipe > 0
    /\ run' = [run EXCEPT !.pipe = @ - 1]
    /\ UNCHANGED <<opts, sem, call, pcm, argv, srv, exc, strm, req>>

\* the subprocess closes its stdin without reading the rest
ChildCloseStdin ==
    /\ run.proc = "running"
    /\ run.stdinRd
    /\ run' = [run EXCEPT !.stdinRd = FALSE, !.pipe = 0]
    /\ UNCHANGED <<opts, sem, call, pcm, argv, srv, exc, strm, req>>

\* the subprocess writes a byte to stdout (blocks while the pipe is full)
ChildWrite ==
    /\ run.proc = "running"
    /\ run.outLeft > 0
    /\ run.outPipe < PipeCap
    /\ run' = [run EXCEPT !.outLeft = @ - 1, !.outPipe = @ + 1]
    /\ UNCHANGED <<opts, sem, call, pcm, argv, srv, exc, strm, req>>

\* the subprocess exits with code k once it has written its output
ChildExit(k) ==
    /\ run.proc = "running"
    /\ ~run.hangs
    /\ run.outLeft = 0
    /\ run' = [run EXCEPT !.proc = "exited", !.exitCode = k,
                          !.stdinRd = FALSE, !.pipe = 0,
                          !.ctxAtExit = run.ctxDone]
    /\ UNCHANGED <<opts, sem, call, pcm, argv, srv, exc, strm, req>>

\* mutant: stdout is only read once run has reached cmd.Wait
copierActiveM == run.pc = "wait"

\* cmd.Stdout = &stdoutBuf: os/exec copies the pipe into the buffer on a
\* goroutine of its own from cmd.Start until cmd.Wait returns
copierActive == run.pc \in {"wgwait", "wait"}

\* os/exec goroutine: copy a byte from the stdout pipe into stdoutBuf
CopyStdout ==
    /\ copierActive
    /\ run.outPipe > 0
    /\ run' = [run EXCEPT !.outPipe = @ - 1, !.stdoutBuf = @ + 1]
    /\ UNCHANGED <<opts, sem, call, pcm, argv, srv, exc, strm, req>>

\* exec.CommandContext: once ctx is done the process is killed
CtxKill ==
    /\ run.pc \in {"wgwait", "wait"}
    /\ run.ctxDone
    /\ run.proc = "running"
    /\ run' = [run EXCEPT !.proc = "exited", !.exitCode = -1, !.killed = "ctx",
                          !.stdinRd = FALSE, !.pipe = 0, !.outLeft = 0,
                          !.ctxAtExit = TRUE]
    /\ UNCHANGED <<opts, sem, call, pcm, argv, srv, exc, strm, req>>

\* wg.Wait() returned and stdinErr == nil: go on to cmd.Wait
WgWaitOk ==
    /\ run.pc = "wgwait"
    /\ run.writer = "ok"
    /\ run' = [run EXCEPT !.pc = "wait"]
    /\ UNCHANGED <<opts, sem, call, pcm, argv, srv, exc, strm, req>>

\* mutant: the error is returned and the process is left alone
WgWaitErrM ==
    /\ run.pc = "wgwait"
    /\ run.writer = "err"
    /\ run' = [run EXCEPT !.pc = "done", !.result = WrappedError("write stdin")]
    /\ UNCHANGED <<opts, sem, call, pcm, argv, srv, exc, strm, req>>

\* wg.Wait() returned and stdinErr != nil: cmd.Process.Kill() and return;
\* cmd.Wait is not called on this path
WgWaitErr ==
    /\ run.pc = "wgwait"
    /\ run.writer = "err"
    /\ run' = IF run.proc = "running"
              THEN [run EXCEPT !.pc = "done", !.proc = "exited", !.exitCode = -1,
                               !.killed = "run", !.stdinRd = FALSE, !.outLeft = 0,
                               !.ctxAtExit = run.ctxDone,
                               !.result = WrappedError("write stdin")]
              ELSE [run EXCEPT !.pc = "done", !.result = WrappedError("write stdin")]
    /\ UNCHANGED <<opts, sem, call, pcm, argv, srv, exc, strm, req>>

\* cmd.Wait returns: the process has exited and is reaped and the stdout
\* copier has seen EOF; run classifies the outcome and returns
CmdWait ==
    /\ run.pc = "wait"
    /\ run.proc = "exited"
    /\ run.outPipe = 0
    /\ run' = [run EXCEPT !.pc = "done", !.proc = "reaped",
                          !.result = waitResult(run.exitCode, run.ctxDone,
                                                run.stdoutBuf)]
    /\ UNCHANGED <<opts, sem, call, pcm, argv, srv, exc, strm, req>>

\* generate after r.run returned (no gate: c.sem is nil): the error is
\* passed on, else the empty-stdout check and parseWAVHeader
GenerateTail(wavOk) ==
    /\ run.pc = "done"
    /\ run.gen = NoResult
    /\ run.result.n = 0 => ~wavOk
    /\ run' = [run EXCEPT !.gen = genResult(run.result, wavOk)]
    /\ UNCHANGED <<opts, sem, call, pcm, argv, srv, exc, strm, req>>

NextRunner ==
    \/ RunCancel
    \/ \E p \in ExecutablePaths, n \in 0..MaxPay : Invoke(p, n)
    \/ \E out \in StartErrors \cup {StartOk}, m \in 0..MaxOut, h \in BOOLEAN :
          RunStart(out, m, h)
    \/ WriterWrite
    \/ WriterDone
    \/ WriterFail
    \/ ChildRead
    \/ ChildCloseStdin
    \/ ChildWrite
    \/ \E k \in ExitCodes : ChildExit(k)
    \/ CopyStdout
    \/ CtxKill
    \/ WgWaitOk
    \/ WgWaitErr
    \/ CmdWait
    \/ \E ok \in BOOLEAN : GenerateTail(ok)

SpecRunner == InitRunner /\ [][NextRunner]_vars

\* the goroutines of run and of os/exec are scheduled, the kernel delivers
\* the kill, and the subprocess keeps writing its output and then exits, or,
\* if it never exits by itself, the context eventually fires; whether the
\* subprocess reads its stdin is left open
FairRunner ==
    /\ SpecRunner
    /\ WF_vars(\E out \in StartErrors \cup {StartOk}, m \in 0..MaxOut, h \in BOOLEAN :
                  RunStart(out, m, h))
    /\ WF_vars(WriterWrite)
    /\ WF_vars(WriterDone)
    /\ WF_vars(WriterFail)
    /\ WF_vars(ChildWrite)
    /\ WF_vars(\E k \in ExitCodes : ChildExit(k))
    /\ WF_vars(run.hangs /\ RunCancel)
    /\ WF_vars(CopyStdout)
    /\ WF_vars(CtxKill)
    /\ WF_vars(WgWaitOk)
    /\ WF_vars(WgWaitErr)
    /\ WF_vars(CmdWait)

\* ---------------------------------------------------------------- output
\* one output buffer: parseWAVHeader on its own, the tail of generate after
\* r.run returned, the tail of ServerClient.Generate after the response
InitWav ==
    /\ opts = ZeroOptions
    /\ sem = 0
    /\ call = [i \in Calls |-> IdleCall]
    /\ run = IdleRun
    /\ pcm \in {[IdlePcm EXCEPT !.pc = "input", !.src = s, !.data = Buffer(s),
                                !.logWriter = w] :
                   s \in Sources, w \in BOOLEAN}
    /\ argv = IdleArgv
    /\ srv = IdleSrv
    /\ exc = IdleExc
    /\ strm = IdleStrm
    /\ req = IdleReq

\* mutant: the metadata is filled in whatever the error
wavResultM(res, data, hdr) ==
    [isNil |-> FALSE, Data |-> data, SampleRate |-> hdr.sampleRate,
     Channels |-> hdr.channels, BitsPerSample |-> hdr.bitsPerSample]

\* the *WAVResult returned next to res: nil with an error, else the bytes
\* and the metadata parseWAVHeader returned for them
wavResult(res, data, hdr) ==
    IF res.kind # "ok" THEN NilWav
    ELSE [isNil |-> FALSE, Data |-> data, SampleRate |-> hdr.sampleRate,
          Channels |-> hdr.channels, BitsPerSample |-> hdr.bitsPerSample]

\* a direct call of parseWAVHeader (the tests)
ParseWAVHeader ==
    /\ pcm.pc = "input"
    /\ pcm' = [pcm EXCEPT !.pc = "done", !.via = "parse",
                          !.hdr = parseWAVHeader(pcm.data)]
    /\ UNCHANGED <<opts, sem, call, run, argv, srv, exc, strm, req>>

\* wall-clock times a call takes, in milliseconds
MaxElapsed == 2

\* generate from the return of r.run on: the subprocess wrote pcm.data to
\* stdout and ended with code, ctxDone tells what ctx.Err() was then, the
\* call took elapsed.  generate reads no clock, leaves Stats unassigned and
\* writes nothing to opts.LogWriter itself.
ClientOutput(code, ctxDone, elapsed) ==
    /\ pcm.pc = "input"
    /\ code = -1 => ctxDone
    /\ LET hdr == parseWAVHeader(pcm.data)
           res == genResult(waitResult(code, ctxDone, Len(pcm.data)), hdr.err = "nil")
       IN  pcm' = [pcm EXCEPT !.pc = "done", !.via = "cli", !.code = code,
                              !.ctxDone = ctxDone, !.elapsed = elapsed,
                              !.hdr = IF code = 0 /\ Len(pcm.data) > 0 THEN hdr
                                      ELSE NoHeader,
                              !.result = res,
                              !.wav = wavResult(res, pcm.data, hdr)]
    /\ UNCHANGED <<opts, sem, call, run, argv, srv, exc, strm, req>>

\* what httpResult is told about the body
bodyOf(data) ==
    IF Len(data) = 0 THEN "empty"
    ELSE IF parseWAVHeader(data).err = "nil" THEN "wav" ELSE "junk"

\* status codes the server of the output specification answers with
WavStatuses == Statuses \cup {204, 404}

\* mutant: the whole body is read
readErrBodyM(body, got) == SubSeq(body, 1, got)

\* io.ReadAll(io.LimitReader(resp.Body, 512)) with the read error dropped:
\* the bytes read when the body delivers got bytes before it ends
readErrBody(body, got) ==
    SubSeq(body, 1, IF got < ErrBodyLimit THEN got ELSE ErrBodyLimit)

\* the line ServerClient.Generate prints after a validated response
summaryLine(nbytes, elapsed) ==
    [bytes |-> nbytes, elapsed |-> elapsed, mode |-> "server"]

\* ServerClient.Generate from the response on: the server answered status
\* with body pcm.data, of which got bytes arrive (all of them, or the read
\* fails before); elapsed is time.Since(start) after the read
ServerOutput(status, got, elapsed) ==
    /\ pcm.pc = "input"
    /\ got \in 0..Len(pcm.data)
    /\ LET hdr == parseWAVHeader(pcm.data)
           res == IF status = 200 /\ got < Len(pcm.data)
                  THEN WrappedError("read TTS response")
                  ELSE httpResult(status, bodyOf(pcm.data))
       IN  pcm' = [pcm EXCEPT !.pc = "done", !.via = "server", !.code = status,
                              !.got = got, !.elapsed = elapsed,
                              !.duration = IF res.kind = "ok" THEN elapsed ELSE 0,
                              !.summary =
                                  IF res.kind = "ok" /\ pcm.logWriter
                                  THEN <<summaryLine(Len(pcm.data), elapsed)>>
                                  ELSE <<>>,
                              !.hdr = IF status = 200 /\ got = Len(pcm.data)
                                      THEN hdr ELSE NoHeader,
                              !.result = res,
                              !.errBody = IF status # 200
                                          THEN readErrBody(pcm.data, got)
                                          ELSE <<>>,
                              !.wav = wavResult(res, pcm.data, hdr)]
    /\ UNCHANGED <<opts, sem, call, run, argv, srv, exc, strm, req>>

NextWav ==
    \/ ParseWAVHeader
    \/ \E code \in ExitCodes \cup {-1}, c \in BOOLEAN, d \in 1..MaxElapsed :
          ClientOutput(code, c, d)
    \/ \E st \in WavStatuses, got \in {0, Len(pcm.data)}, d \in 1..MaxElapsed :
          ServerOutput(st, got, d)

SpecWav == InitWav /\ [][NextWav]_vars

\* ---------------------------------------------------------------- buildArgs
\* a Client built by newClient(&o), then c.buildArgs()
InitArgs ==
    /\ opts = ZeroOptions
    /\ sem = 0
    /\ call = [i \in Calls |-> IdleCall]
    /\ run = IdleRun
    /\ pcm = IdlePcm
    /\ argv \in {[IdleArgv EXCEPT !.pc = "input", !.o = o] : o \in ArgOptions}
    /\ srv = IdleSrv
    /\ exc = IdleExc
    /\ strm = IdleStrm
    /\ req = IdleReq

BuildArgs ==
    /\ argv.pc = "input"
    /\ argv' = [argv EXCEPT !.pc = "done", !.args = buildArgs(argv.o)]
    /\ UNCHANGED <<opts, sem, call, run, pcm, srv, exc, strm, req>>

NextArgs == BuildArgs

SpecArgs == InitArgs /\ [][NextArgs]_vars

\* ---------------------------------------------------------------- Start, Stop
InitServer ==
    /\ opts = ZeroOptions
    /\ sem = 0
    /\ call = [i \in Calls |-> IdleCall]
    /\ run = IdleRun
    /\ pcm = IdlePcm
    /\ argv = IdleArgv
    /\ srv \in {[IdleSrv EXCEPT !.external = e] : e \in BOOLEAN}
    /\ exc = IdleExc
    /\ strm = IdleStrm
    /\ req = IdleReq

\* what a GET /health gets: a status, or no response (0: connection
\* refused, request cancelled)
Responses == {0, 503, 200}

\* the answers possible for a probe: only a listening server answers
responsesOf(v) ==
    IF v.proc = "running" \/ v.external THEN Responses ELSE {0}

\* ServerClient.Health: nil iff a response came and its status is 200
Health(resp) == IF resp = 200 THEN "nil" ELSE "error"

\* mutant: the Kill is left out
killedM(p) == p

\* Process.Kill: a live process ends; it is not waited for
killed(p) == IF p = "running" THEN "exited" ELSE p

\* mutant: the handle is stored before the error of cmd.Start is looked at
StartCallM(out) ==
    /\ srv.pc = "idle"
    /\ srv.starts < MaxStarts
    /\ IF out = StartOk
       THEN srv' = [srv EXCEPT !.pc = "poll", !.proc = "running",
                               !.orphans = IF srv.proc = "running" THEN @ + 1 ELSE @,
                               !.spawned = @ + 1, !.starts = @ + 1,
                               !.ctxDone = FALSE, !.expired = FALSE,
                               !.probes = 0, !.procAtIssue = "none",
                               !.okInTime = FALSE, !.procAtRet = "none",
                               !.result = "none", !.startErr = out]
       ELSE srv' = [srv EXCEPT !.starts = @ + 1, !.probes = 0,
                               !.startErr = out, !.proc = "none",
                               !.procAtIssue = "none", !.okInTime = FALSE,
                               !.procAtRet = "none",
                               !.result = startError(out, "").kind]
    /\ UNCHANGED <<opts, sem, call, run, pcm, argv, exc, strm, req>>

\* Start up to the poll loop: cmd.Start, s.proc = cmd.  A failed cmd.Start
\* leaves s.proc as it was.
StartCall(out) ==
    /\ srv.pc = "idle"
    /\ srv.starts < MaxStarts
    /\ IF out = StartOk
       THEN srv' = [srv EXCEPT !.pc = "poll", !.proc = "running",
                               !.orphans = IF srv.proc = "running" THEN @ + 1 ELSE @,
                               !.spawned = @ + 1, !.starts = @ + 1,
                               !.ctxDone = FALSE, !.expired = FALSE,
                               !.probes = 0, !.procAtIssue = "none",
                               !.okInTime = FALSE, !.procAtRet = "none",
                               !.result = "none", !.startErr = out]
       ELSE srv' = [srv EXCEPT !.starts = @ + 1, !.probes = 0,
                               !.startErr = out,
                               !.procAtIssue = "none", !.okInTime = FALSE,
                               !.procAtRet = srv.proc,
                               !.result = startError(out, "").kind]
    /\ UNCHANGED <<opts, sem, call, run, pcm, argv, exc, strm, req>>

\* the ctx given to Start is cancelled or its deadline passes
ServerCancel ==
    /\ srv.starts > 0 /\ srv.spawned > 0
    /\ ~srv.ctxDone
    /\ srv' = [srv EXCEPT !.ctxDone = TRUE]
    /\ UNCHANGED <<opts, sem, call, run, pcm, argv, exc, strm, req>>

\* mutant: the ctx is watched only while Start is running
ServerCtxKillM ==
    /\ srv.pc # "idle"
    /\ srv.ctxDone
    /\ srv.proc = "running"
    /\ srv' = [srv EXCEPT !.proc = "exited"]
    /\ UNCHANGED <<opts, sem, call, run, pcm, argv, exc, strm, req>>

\* exec.CommandContext: the process is killed once ctx is done
ServerCtxKill ==
    /\ srv.ctxDone
    /\ srv.proc = "running"
    /\ srv' = [srv EXCEPT !.proc = "exited"]
    /\ UNCHANGED <<opts, sem, call, run, pcm, argv, exc, strm, req>>

\* the server process exits by itself (bind error, crash)
ServerExit ==
    /\ srv.proc = "running"
    /\ srv' = [srv EXCEPT !.proc = "exited"]
    /\ UNCHANGED <<opts, sem, call, run, pcm, argv, exc, strm, req>>

\* time passes the deadline of the Start call
Expire ==
    /\ srv.pc \in {"poll", "probe"}
    /\ ~srv.expired
    /\ srv' = [srv EXCEPT !.expired = TRUE]
    /\ UNCHANGED <<opts, sem, call, run, pcm, argv, exc, strm, req>>

\* the loop condition and the ctx check of one poll iteration, then the
\* Health request is sent; after the loop: Kill and the timeout error
PollTop ==
    /\ srv.pc = "poll"
    /\ IF srv.expired
       THEN srv' = [srv EXCEPT !.pc = "idle", !.proc = killed(srv.proc),
                               !.procAtRet = killed(srv.proc),
                               !.result = "not healthy in time"]
       ELSE IF srv.ctxDone
       THEN srv' = [srv EXCEPT !.pc = "idle", !.proc = killed(srv.proc),
                               !.procAtRet = killed(srv.proc),
                               !.result = "ctx.Err"]
       ELSE /\ srv.probes < MaxProbes
            /\ srv' = [srv EXCEPT !.pc = "probe", !.probes = @ + 1,
                                  !.procAtIssue = srv.proc]
    /\ UNCHANGED <<opts, sem, call, run, pcm, argv, exc, strm, req>>

\* the Health call of the iteration returns: nil ends Start, anything else
\* sleeps and loops
ProbeReturn(resp) ==
    /\ srv.pc = "probe"
    /\ resp \in responsesOf(srv)
    /\ IF Health(resp) = "nil"
       THEN srv' = [srv EXCEPT !.pc = "idle", !.result = "nil",
                               !.okInTime = ~srv.expired,
                               !.procAtRet = srv.proc]
       ELSE srv' = [srv EXCEPT !.pc = "poll"]
    /\ UNCHANGED <<opts, sem, call, run, pcm, argv, exc, strm, req>>

\* Health called on its own, at any time: it uses s.opts and s.http only
DirectHealth(resp) ==
    /\ resp \in responsesOf(srv)
    /\ srv' = [srv EXCEPT !.healthResp = resp, !.health = Health(resp)]
    /\ UNCHANGED <<opts, sem, call, run, pcm, argv, exc, strm, req>>

\* ServerClient.Generate for the answer to its POST /tts: the request
\* error, ErrNonZeroExit for a status other than 200, else the WAV
generateResult(resp) ==
    IF resp = 0 THEN "error" ELSE IF resp # 200 THEN "ErrNonZeroExit" ELSE "ok"

\* mutant: a request that gets no answer kills the managed process
DirectGenerateM(resp) ==
    /\ resp \in responsesOf(srv)
    /\ srv' = [srv EXCEPT !.gen = generateResult(resp),
                          !.proc = IF resp = 0 THEN killed(@) ELSE @]
    /\ UNCHANGED <<opts, sem, call, run, pcm, argv, exc, strm, req>>

\* Generate called on this ServerClient, at any time: it uses s.opts and
\* s.http only
DirectGenerate(resp) ==
    /\ resp \in responsesOf(srv)
    /\ srv' = [srv EXCEPT !.gen = generateResult(resp)]
    /\ UNCHANGED <<opts, sem, call, run, pcm, argv, exc, strm, req>>

\* what Stop returns for the process state p: Kill fails with
\* os.ErrProcessDone on a process that has been waited for
stopResult(p) == IF p = "reaped" THEN "error" ELSE "nil"

\* ServerClient.Stop: nothing without a process; else Kill, and Wait when
\* the Kill succeeded
Stop ==
    /\ srv.pc = "idle"
    /\ srv.stops < MaxStops
    /\ srv' = [srv EXCEPT !.stops = @ + 1,
                          !.stop = stopResult(srv.proc),
                          !.proc = IF srv.proc \in {"running", "exited"}
                                   THEN "reaped" ELSE @]
    /\ UNCHANGED <<opts, sem, call, run, pcm, argv, exc, strm, req>>

NextServer ==
    \/ \E out \in StartErrors \cup {StartOk} : StartCall(out)
    \/ ServerCancel
    \/ ServerCtxKill
    \/ ServerExit
    \/ Expire
    \/ PollTop
    \/ \E resp \in Responses : ProbeReturn(resp)
    \/ \E resp \in Responses : DirectHealth(resp)
    \/ \E resp \in Responses : DirectGenerate(resp)
    \/ Stop

SpecServer == InitServer /\ [][NextServer]_vars

\* Start's goroutine keeps running, every Health request returns (the ctx,
\* the http.Client timeout), and the goroutine exec.CommandContext starts
\* to watch the ctx runs
FairServer ==
    /\ SpecServer
    /\ WF_vars(PollTop)
    /\ WF_vars(\E resp \in Responses : ProbeReturn(resp))
    /\ WF_vars(ServerCtxKill)

\* ---------------------------------------------------------------- stderr excerpt
\* cmd.Wait is about to return in a run whose subprocess wrote exc.s to stderr
InitExcerpt ==
    /\ opts = ZeroOptions
    /\ sem = 0
    /\ call = [i \in Calls |-> IdleCall]
    /\ run = IdleRun
    /\ pcm = IdlePcm
    /\ argv = IdleArgv
    /\ srv = IdleSrv
    /\ exc \in {[IdleExc EXCEPT !.pc = "input", !.s = s] : s \in Stderrs}
    /\ strm = IdleStrm
    /\ req = IdleReq

\* run from the return of cmd.Wait on: res.stderr is cut by truncate, and
\* the error built from the exit code and ctx.Err() carries it
RunExcerpt(code, ctxDone) ==
    /\ exc.pc = "input"
    /\ code = -1 => ctxDone
    /\ exc' = [exc EXCEPT !.pc = "done", !.code = code, !.ctxDone = ctxDone,
                          !.stderr = truncate(exc.s, ExcerptLimit),
                          !.result = waitResult(code, ctxDone, 1)]
    /\ UNCHANGED <<opts, sem, call, run, pcm, argv, srv, strm, req>>

NextExcerpt == \E code \in ExitCodes \cup {-1}, c \in BOOLEAN : RunExcerpt(code, c)

SpecExcerpt == InitExcerpt /\ [][NextExcerpt]_vars

\* ---------------------------------------------------------------- streams
\* cmd.Start has returned in a run whose subprocess will write prog; the
\* stdin goroutine is started and run is in wg.Wait
InitStreams ==
    /\ opts = ZeroOptions
    /\ sem = 0
    /\ call = [i \in Calls |-> IdleCall]
    /\ run = IdleRun
    /\ pcm = IdlePcm
    /\ argv = IdleArgv
    /\ srv = IdleSrv
    /\ exc = IdleExc
    /\ strm \in {[IdleStrm EXCEPT !.pc = "wgwait", !.logWriter = w, !.prog = p,
                                  !.child = "running", !.writer = "running"] :
                    w \in BOOLEAN, p \in Programs}
    /\ req = IdleReq

\* the subprocess writes its next byte to the pipe of the stream it names
StreamWrite ==
    /\ strm.child = "running"
    /\ strm.prog # <<>>
    /\ LET w == Head(strm.prog)
       IN  strm' = IF w.fd = Stdout
                   THEN [strm EXCEPT !.prog = Tail(@),
                                     !.outPipe = Append(@, w.b),
                                     !.wroteOut = Append(@, w.b)]
                   ELSE [strm EXCEPT !.prog = Tail(@),
                                     !.errPipe = Append(@, w.b),
                                     !.wroteErr = Append(@, w.b)]
    /\ UNCHANGED <<opts, sem, call, run, pcm, argv, srv, exc, req>>

\* the subprocess ends, by itself with code k or killed once ctx is done
\* (-1), writing no more
StreamExit(k, ctxDone) ==
    /\ strm.child = "running"
    /\ k = -1 => ctxDone
    /\ strm' = [strm EXCEPT !.child = "exited", !.code = k, !.ctxDone = ctxDone,
                            !.prog = <<>>]
    /\ UNCHANGED <<opts, sem, call, run, pcm, argv, srv, exc, req>>

\* cmd.Stdout = &stdoutBuf: the os/exec goroutine of stdout copies a byte
\* from the pipe into stdoutBuf
StreamCopyStdout ==
    /\ strm.outPipe # <<>>
    /\ strm' = [strm EXCEPT !.outPipe = Tail(@),
                            !.stdoutBuf = Append(@, Head(strm.outPipe))]
    /\ UNCHANGED <<opts, sem, call, run, pcm, argv, srv, exc, req>>

\* cmd.Stderr = &stderrBuf, or io.MultiWriter(&stderrBuf, r.logWriter) when
\* a logWriter is set: the os/exec goroutine of stderr copies a byte from the
\* pipe into stderrBuf and then into the logWriter
StreamCopyStderr ==
    /\ strm.errPipe # <<>>
    /\ strm' = [strm EXCEPT !.errPipe = Tail(@),
                            !.stderrBuf = Append(@, Head(strm.errPipe)),
                            !.log = IF strm.logWriter
                                    THEN Append(@, Head(strm.errPipe)) ELSE @]
    /\ UNCHANGED <<opts, sem, call, run, pcm, argv, srv, exc, req>>

\* stdin goroutine: the payload is written while the subprocess lives
StreamWriterDone ==
    /\ strm.writer = "running"
    /\ strm.child = "running"
    /\ strm' = [strm EXCEPT !.writer = "ok"]
    /\ UNCHANGED <<opts, sem, call, run, pcm, argv, srv, exc, req>>

\* stdin goroutine: the subprocess has ended, Write fails with EPIPE
StreamWriterFail ==
    /\ strm.writer = "running"
    /\ strm.child = "exited"
    /\ strm' = [strm EXCEPT !.writer = "err"]
    /\ UNCHANGED <<opts, sem, call, run, pcm, argv, srv, exc, req>>

\* wg.Wait() returned and stdinErr == nil: go on to cmd.Wait
StreamWgWaitOk ==
    /\ strm.pc = "wgwait"
    /\ strm.writer = "ok"
    /\ strm' = [strm EXCEPT !.pc = "wait"]
    /\ UNCHANGED <<opts, sem, call, run, pcm, argv, srv, exc, req>>

\* wg.Wait() returned and stdinErr != nil: Kill and return, without cmd.Wait
\* and without a runResult; the copying goroutines are not waited for
StreamWgWaitErr ==
    /\ strm.pc = "wgwait"
    /\ strm.writer = "err"
    /\ strm' = [strm EXCEPT !.pc = "done", !.result = WrappedError("write stdin")]
    /\ UNCHANGED <<opts, sem, call, run, pcm, argv, srv, exc, req>>

\* cmd.Wait returns once the subprocess has ended and both copying
\* goroutines have seen EOF; run fills res from the buffers and classifies
StreamCmdWait ==
    /\ strm.pc = "wait"
    /\ strm.child = "exited"
    /\ strm.outPipe = <<>> /\ strm.errPipe = <<>>
    /\ LET res == waitResult(strm.code, strm.ctxDone, Len(strm.stdoutBuf))
       IN  strm' = [strm EXCEPT !.pc = "done", !.result = res,
                                !.stdout = IF res.kind = "runResult"
                                           THEN strm.stdoutBuf ELSE <<>>,
                                !.stderr = truncate(strm.stderrBuf, ExcerptLimit)]
    /\ UNCHANGED <<opts, sem, call, run, pcm, argv, srv, exc, req>>

NextStreams ==
    \/ StreamWrite
    \/ \E k \in ExitCodes \cup {-1}, c \in BOOLEAN : StreamExit(k, c)
    \/ StreamCopyStdout
    \/ StreamCopyStderr
    \/ StreamWriterDone
    \/ StreamWriterFail
    \/ StreamWgWaitOk
    \/ StreamWgWaitErr
    \/ StreamCmdWait

SpecStreams == InitStreams /\ [][NextStreams]_vars

\* ---------------------------------------------------------------- buildTTSRequest
\* ServerClient.Generate is about to be called with req.text and req.o (or nil)
InitRequest ==
    /\ opts = ZeroOptions
    /\ sem = 0
    /\ call = [i \in Calls |-> IdleCall]
    /\ run = IdleRun
    /\ pcm = IdlePcm
    /\ argv = IdleArgv
    /\ srv = IdleSrv
    /\ exc = IdleExc
    /\ strm = IdleStrm
    /\ req \in {[IdleReq EXCEPT !.pc = "input", !.text = t, !.o = o] :
                   t \in Texts, o \in RequestOptions}
             \cup {[IdleReq EXCEPT !.pc = "input", !.text = t, !.nilOpts = TRUE] :
                      t \in Texts}

\* ServerClient.Generate up to s.http.Do: validation, the nil opts default,
\* buildTTSRequest.  file: what is at VoiceWAVPath, looked at only by os.Open.
SendRequest(file) ==
    /\ req.pc = "input"
    /\ LET o == IF req.nilOpts THEN ZeroRequestOptions ELSE req.o
       IN  IF IsBlankText(req.text)
           THEN /\ file = NoFile
                /\ req' = [req EXCEPT !.pc = "done", !.result = ErrEmptyText.kind]
           ELSE IF opensVoiceFile(o)
           THEN req' = IF file.exists
                       THEN [req EXCEPT !.pc = "done", !.result = "sent",
                                        !.parts = buildTTSRequest(o),
                                        !.textField = req.text,
                                        !.fileName = Base(o.VoiceWAVPath),
                                        !.fileBytes = file.bytes,
                                        !.file = file, !.opened = 1,
                                        !.requests = 1]
                       ELSE [req EXCEPT !.pc = "done",
                                        !.result = WrappedError("open voice file").kind,
                                        !.file = file, !.opened = 1]
           ELSE /\ file = NoFile
                /\ req' = [req EXCEPT !.pc = "done", !.result = "sent",
                                      !.parts = buildTTSRequest(o),
                                      !.textField = req.text,
                                      !.voiceURL = o.VoiceURL,
                                      !.requests = 1]
    /\ UNCHANGED <<opts, sem, call, run, pcm, argv, srv, exc, strm>>

NextRequest == \E file \in VoiceFiles : SendRequest(file)

SpecRequest == InitRequest /\ [][NextRequest]_vars

\* ---------------------------------------------------------------- properties
\* t is empty or consists of whitespace only
AllSpaces(t) == \A k \in 1..Len(t) : t[k] = " "

\* calls through the shared Client that are past acquisition, not yet returned
Admitted == {i \in Calls : call[i].via = "cli" /\ call[i].pc \in {"run", "proc"}}

\* subprocesses of the shared Client that are alive
Alive == {i \in Calls : call[i].via = "cli" /\ call[i].proc = "running"}

\* C1: a Generate call (Client or ServerClient) whose text is empty or all
\* whitespace returns ErrEmptyText in its first step and does nothing else:
\* the channel is untouched, no slot is held, no process is started, no voice
\* file is opened and no HTTP request is sent.
EmptyTextRejected ==
    [][\A i \in Calls :
          (call[i].pc = "entry" /\ AllSpaces(call[i].text) /\ call'[i].pc # "entry")
          => /\ call'[i].pc = "done"
             /\ call'[i].result = ErrEmptyText
             /\ sem' = sem
             /\ ~call'[i].holds
             /\ call'[i].proc = "none" /\ call'[i].spawned = 0
             /\ call'[i].opened = 0 /\ call'[i].requests = 0]_vars

\* both transports have rejected a non-empty whitespace text
EmptyTextWitness ==
    \E i, j \in Calls :
        /\ call[i].via = "cli" /\ call[j].via = "server"
        /\ call[i].text = <<" ">> /\ call[j].text = <<" ">>
        /\ call[i].result = ErrEmptyText /\ call[j].result = ErrEmptyText

\* C2: with Concurrency = N > 0 at most N calls are past slot acquisition and
\* not yet released, so at most N subprocesses of the Client are alive; a
\* call has its slot before its subprocess is created.
GateBound ==
    opts.Concurrency > 0 =>
        /\ Cardinality(Admitted) <= opts.Concurrency
        /\ Cardinality(Alive) <= opts.Concurrency
        /\ \A i \in Calls :
              (call[i].via = "cli" /\ call[i].pc \in {"run", "proc"}) => call[i].holds

\* the gate is full, one call runs its subprocess and another one waits
GateBoundWitness ==
    /\ opts.Concurrency = 1
    /\ \E i, j \in Calls :
          /\ call[i].proc = "running" /\ call[i].holds
          /\ call[j].pc = "acquire"

\* C3: while every slot is held, a waiting call leaves the wait only because
\* its context is done: it returns ErrProcessTimeout with the slot message,
\* has started no subprocess, and the number of held slots is unchanged.
SlotWaitTimeout ==
    [][\A i \in Calls :
          (call[i].pc = "acquire" /\ sem = opts.Concurrency /\ call'[i].pc # "acquire")
          => /\ call[i].ctxDone
             /\ call'[i].pc = "done"
             /\ call'[i].result.kind = "ErrProcessTimeout"
             /\ call'[i].result.info = SlotMsg
             /\ call'[i].spawned = 0 /\ call'[i].proc = "none"
             /\ sem' = sem]_vars

\* a call timed out waiting while another call still holds the only slot
SlotWaitWitness ==
    /\ opts.Concurrency = 1
    /\ \E i, j \in Calls :
          /\ call[i].pc = "done" /\ call[i].result.info = SlotMsg
          /\ call[j].holds /\ sem = 1

\* C4: every call that acquired a slot gives back exactly that slot when it
\* returns, on every exit path: the channel holds one token per admitted
\* call, and none when no call is in flight.
SlotsReleased ==
    /\ sem = (IF opts.Concurrency > 0 THEN Cardinality(Admitted) ELSE 0)
    /\ (\A i \in Calls : call[i].pc \in {"idle", "done"}) => sem = 0

\* two admitted calls have returned, one with an error and one with a result
SlotsReleasedWitness ==
    /\ opts.Concurrency > 0
    /\ \A i \in Calls : call[i].pc = "done"
    /\ \E i, j \in Calls :
          /\ call[i].via = "cli" /\ call[i].result.info = "write stdin"
          /\ call[j].via = "cli" /\ call[j].result.kind = "ok"

\* C5: if the context had fired by the time the started subprocess ended,
\* run returns ErrProcessTimeout carrying the stderr excerpt.
TimeoutClassified ==
    (run.pc = "done" /\ run.spawned > 0 /\ run.ctxAtExit)
    => run.result = ErrProcessTimeout("stderr")

\* C6: a call that ended because its context fired (during the admission
\* wait, the subprocess run or the HTTP request) returns ErrProcessTimeout.
CancellationIsTimeout ==
    \A i \in Calls :
        (call[i].pc = "done" /\ call[i].aborted)
        => call[i].result.kind = "ErrProcessTimeout"

\* C7: if the started subprocess exited by itself with code k # 0 and the
\* context is not done, run returns ErrNonZeroExit with ExitCode k.
NonZeroExitReported ==
    (/\ run.pc = "done" /\ run.spawned > 0
     /\ run.killed = "no" /\ run.exitCode # 0 /\ ~run.ctxDone)
    => run.result = ErrNonZeroExit(run.exitCode, "stderr")

\* cmd.Start errors that mean the executable does not exist
NotFoundErrors ==
    { [wrap |-> "exec.Error",   cause |-> "ErrNotFound"],
      [wrap |-> "os.PathError", cause |-> "ENOENT"] }

\* C8: if the executable cannot be resolved, run returns
\* ErrExecutableNotFound naming it; no process was created, the stdin
\* goroutine was never launched and the stdin pipe is closed.
ExecutableNotFoundClean ==
    (run.pc = "done" /\ run.startErr \in NotFoundErrors)
    => /\ run.result.kind = "ErrExecutableNotFound"
       /\ run.result.info = (IF run.path = "" THEN "pocket-tts" ELSE run.path)
       /\ run.spawned = 0 /\ run.proc = "none"
       /\ run.writer = "none" /\ ~run.pipeOpen

\* run returned after fork/exec of an explicit path failed with ENOENT
ExecutableNotFoundWitness ==
    /\ run.pc = "done"
    /\ run.path # ""
    /\ run.startErr = [wrap |-> "os.PathError", cause |-> "ENOENT"]
    /\ run.result.kind = "ErrExecutableNotFound"

\* C9: run creates at most one process, and when it returns after starting
\* one, that process has terminated and has been waited for.
ProcessReaped ==
    (run.pc = "done" /\ run.spawned > 0)
    => (run.spawned = 1 /\ run.proc = "reaped")

\* C10: once called, run eventually returns, whatever the payload size and
\* whatever the subprocess reads and writes, given that the subprocess
\* eventually exits or the context eventually fires.
RunReturns == (run.pc # "idle") ~> (run.pc = "done")

\* the stdin write is blocked on a full pipe while the subprocess is blocked
\* writing to a full stdout pipe
RunReturnsWitness ==
    /\ run.pc = "wgwait" /\ run.proc = "running" /\ run.stdinRd
    /\ run.left > 0 /\ run.pipe = PipeCap
    /\ run.outLeft > 0 /\ run.outPipe = PipeCap

\* C11: when the started subprocess exited by itself with code 0 having
\* written nothing to stdout, generate returns ErrNonZeroExit with ExitCode 0
\* and the empty-stdout message, and never a result.
EmptyOutputIsError ==
    (/\ run.pc = "done" /\ run.gen # NoResult /\ run.spawned > 0
     /\ run.killed = "no" /\ run.exitCode = 0
     /\ run.stdoutBuf = 0 /\ run.outPipe = 0)
    => run.gen = ErrNonZeroExit(0, "empty stdout")

\* C12: a result returned without error by either transport carries the
\* non-empty bytes that passed parseWAVHeader and the non-zero metadata parsed
\* from those bytes; with an error no result is returned.
ResultValidated ==
    (pcm.pc = "done" /\ pcm.via \in {"cli", "server"}) =>
        IF pcm.result.kind = "ok"
        THEN /\ ~pcm.wav.isNil
             /\ pcm.wav.Data = pcm.data /\ pcm.data # <<>>
             /\ pcm.hdr.err = "nil"
             /\ pcm.wav.SampleRate = pcm.hdr.sampleRate /\ pcm.wav.SampleRate # 0
             /\ pcm.wav.Channels = pcm.hdr.channels /\ pcm.wav.Channels # 0
             /\ pcm.wav.BitsPerSample = pcm.hdr.bitsPerSample
             /\ pcm.wav.BitsPerSample # 0
        ELSE pcm.wav = NilWav

\* the server transport returned a result for a 24000 Hz mono 16-bit body
ResultValidatedWitness ==
    /\ pcm.pc = "done" /\ pcm.via = "server" /\ pcm.result.kind = "ok"
    /\ pcm.wav.SampleRate = 24000 /\ pcm.wav.Channels = 1
    /\ pcm.wav.BitsPerSample = 16

\* C13: for a header built by makeWAVHeader(sr, ch, bps) with sr, ch, bps
\* non-zero, also with bytes appended, parseWAVHeader returns (sr, ch, bps)
\* and no error.
HeaderRoundTrip ==
    (/\ pcm.pc = "done" /\ pcm.via = "parse"
     /\ pcm.src.damage = "none" /\ pcm.src.cut = HeaderLen
     /\ pcm.src.sr # 0 /\ pcm.src.ch # 0 /\ pcm.src.bps # 0)
    => pcm.hdr = Header("nil", pcm.src.sr, pcm.src.ch, pcm.src.bps)

\* a 24000 Hz mono 16-bit header followed by audio bytes was parsed
HeaderRoundTripWitness ==
    /\ pcm.pc = "done" /\ pcm.via = "parse"
    /\ pcm.src = [sr |-> 24000, ch |-> 1, bps |-> 16, damage |-> "none",
                  cut |-> HeaderLen, tail |-> <<255>>]
    /\ pcm.hdr = Header("nil", 24000, 1, 16)

\* C14: parseWAVHeader returns an error and all-zero metadata for every
\* buffer shorter than the 44-byte header, with a mismatching RIFF, WAVE or
\* fmt signature, or with a zero sample rate, channel count or bit depth.
MalformedRejected ==
    (/\ pcm.pc = "done" /\ pcm.via = "parse"
     /\ \/ Len(pcm.data) < HeaderLen
        \/ pcm.src.damage # "none"
        \/ pcm.src.sr = 0 \/ pcm.src.ch = 0 \/ pcm.src.bps = 0)
    => /\ pcm.hdr.err # "nil"
       /\ pcm.hdr.sampleRate = 0 /\ pcm.hdr.channels = 0
       /\ pcm.hdr.bitsPerSample = 0

\* the option flags of buildArgs
OptionFlags ==
    {"--voice", "--config", "--temperature", "--lsd-decode-steps",
     "--noise-clamp", "--eos-threshold", "--frames-after-eos", "--max-tokens",
     "--quiet"}

\* the positions of args that hold flag
Occurrences(args, flag) == {k \in 1..Len(args) : args[k] = flag}

\* C15: with Voice, Config and the six numeric fields zero and Quiet false,
\* buildArgs returns no option flag, whatever ExecutablePath, LogWriter and
\* Concurrency are.
ZeroValuesOmitted ==
    (/\ argv.pc = "done"
     /\ argv.o.Voice = "" /\ argv.o.Config = "" /\ argv.o.Temperature = 0
     /\ argv.o.LSDDecodeSteps = 0 /\ argv.o.NoiseClamp = 0
     /\ argv.o.EOSThreshold = 0 /\ argv.o.FramesAfterEOS = 0
     /\ argv.o.MaxTokens = 0 /\ ~argv.o.Quiet)
    => \A f \in OptionFlags : Occurrences(argv.args, f) = {}

\* arguments were built for zero options with ExecutablePath, LogWriter and
\* Concurrency set
ZeroValuesOmittedWitness ==
    /\ argv.pc = "done"
    /\ argv.o = [NoArgOptions EXCEPT !.ExecutablePath = "/opt/pocket-tts",
                                     !.LogWriter = "w", !.Concurrency = 1]
    /\ argv.args = <<"generate", "--text", "-", "--output-path", "-">>

\* flag occurs in args exactly when present says so, then exactly once and
\* immediately followed by value
PairOnce(args, flag, present, value) ==
    IF present
    THEN /\ Cardinality(Occurrences(args, flag)) = 1
         /\ \A k \in Occurrences(args, flag) : k < Len(args) /\ args[k + 1] = value
    ELSE Occurrences(args, flag) = {}

\* every option of o is in args as the claim says; the values as printed in
\* TestBuildArgs_AllFlags
FlagsAsFields(o, args) ==
    /\ PairOnce(args, "--voice", o.Voice # "", o.Voice)
    /\ PairOnce(args, "--config", o.Config # "", o.Config)
    /\ PairOnce(args, "--temperature", o.Temperature # 0,
                IF o.Temperature = 8 THEN "0.8" ELSE "2")
    /\ PairOnce(args, "--lsd-decode-steps", o.LSDDecodeSteps # 0, "32")
    /\ PairOnce(args, "--noise-clamp", o.NoiseClamp # 0, "1.5")
    /\ PairOnce(args, "--eos-threshold", o.EOSThreshold # 0, "0.5")
    /\ PairOnce(args, "--frames-after-eos", o.FramesAfterEOS # 0, "4")
    /\ PairOnce(args, "--max-tokens", o.MaxTokens # 0, "512")
    /\ Cardinality(Occurrences(args, "--quiet")) = (IF o.Quiet THEN 1 ELSE 0)

\* C16 as stated: for every Options value each flag is in the result iff its
\* field is non-zero, then once and followed by the formatted value.
FlagsMatchFields ==
    argv.pc = "done" => FlagsAsFields(argv.o, argv.args)

\* C16 amended: the same for every Options value whose Voice and Config are
\* not themselves option flags.
FlagsMatchFieldsPlain ==
    (/\ argv.pc = "done"
     /\ argv.o.Voice \notin OptionFlags /\ argv.o.Config \notin OptionFlags)
    => FlagsAsFields(argv.o, argv.args)

\* arguments were built for the Options of TestBuildArgs_AllFlags
FlagsMatchFieldsWitness ==
    /\ argv.pc = "done"
    /\ argv.o.Voice = "mimi" /\ argv.o.Config = "/tmp/cfg.json"
    /\ argv.o.Temperature = 8 /\ argv.o.LSDDecodeSteps = 32
    /\ argv.o.NoiseClamp = 15 /\ argv.o.EOSThreshold = 5
    /\ argv.o.FramesAfterEOS = 4 /\ argv.o.MaxTokens = 512 /\ argv.o.Quiet
    /\ Len(argv.args) = 22

\* the latest Start call created a process and has returned
StartReturned ==
    srv.pc = "idle" /\ srv.result \in {"nil", "ctx.Err", "not healthy in time"}

\* C17: Start returns nil only after a probe it issued returned 200 before
\* the startup timeout elapsed; Health returns nil iff the status is 200.
HealthyOnlyAfterProbe ==
    /\ (StartReturned /\ srv.result = "nil") => (srv.probes > 0 /\ srv.okInTime)
    /\ srv.healthResp # -1 => (srv.health = "nil" <=> srv.healthResp = 200)

\* C18: if no probe returned success within the startup timeout, Start
\* returns an error, the process it created has ended when it returns, and
\* Start can be called again.
StartFailureClean ==
    (StartReturned /\ ~srv.okInTime) =>
        /\ srv.result # "nil"
        /\ srv.procAtRet # "running"
        /\ srv.starts < MaxStarts => ENABLED StartCall(StartOk)

\* C19: a poll iteration that finds the server process dead aborts the wait:
\* no probe is sent for a process that has exited, and Start does not return
\* nil on a probe sent after the process exited.
ProcessDeathAborts ==
    (srv.pc = "probe" \/ (StartReturned /\ srv.result = "nil"))
    => srv.procAtIssue = "running"

\* C20: every Stop call returns nil and leaves no process of s.proc alive;
\* a running process is killed and waited for.
StopIdempotent ==
    [][srv'.stops = srv.stops + 1
       => /\ srv'.stop = "nil"
          /\ srv'.proc \in {"none", "reaped"}
          /\ srv.proc = "running" => srv'.proc = "reaped"]_vars

\* xs is the first Len(xs) elements of ys
IsPrefix(xs, ys) == Len(xs) <= Len(ys) /\ xs = SubSeq(ys, 1, Len(xs))

\* C21: for every response to POST /tts whose status s is not 200,
\* ServerClient.Generate returns ErrNonZeroExit with ExitCode = s and Stderr
\* at most the first 512 bytes of the body (those, when the body was read to
\* its end), returns no result, and does not call parseWAVHeader.
ServerErrorReported ==
    (pcm.pc = "done" /\ pcm.via = "server" /\ pcm.code # 200) =>
        /\ pcm.result.kind = "ErrNonZeroExit"
        /\ pcm.result.code = pcm.code
        /\ IsPrefix(pcm.errBody, pcm.data)
        /\ Len(pcm.errBody) <= ErrBodyLimit
        /\ pcm.got = Len(pcm.data) =>
               \/ pcm.errBody = pcm.data
               \/ Len(pcm.errBody) = ErrBodyLimit
        /\ pcm.wav = NilWav
        /\ pcm.hdr = NoHeader

\* a 404 whose body is longer than 512 bytes was reported with its first 512
ServerErrorReportedWitness ==
    /\ pcm.pc = "done" /\ pcm.via = "server" /\ pcm.code = 404
    /\ Len(pcm.data) > ErrBodyLimit
    /\ pcm.got = Len(pcm.data)
    /\ Len(pcm.errBody) = ErrBodyLimit
    /\ pcm.result.kind = "ErrNonZeroExit"

\* what the other transport returns for the payload this one was given:
\* the subprocess exits 0 with stdout = data, the server answers 200 with
\* body = data
otherTransport(via, data) ==
    IF via = "server"
    THEN genResult(waitResult(0, FALSE, Len(data)), parseWAVHeader(data).err = "nil")
    ELSE httpResult(200, bodyOf(data))

\* C22: for the same payload, the subprocess exiting 0 with that stdout and
\* the server answering 200 with that body give the same outcome: the same
\* result, or errors of the same category; the empty payload included.
TransportsAgree ==
    (/\ pcm.pc = "done"
     /\ \/ pcm.via = "cli" /\ pcm.code = 0
        \/ pcm.via = "server" /\ pcm.code = 200 /\ pcm.got = Len(pcm.data))
    => LET other == otherTransport(pcm.via, pcm.data)
       IN  /\ other.kind = pcm.result.kind
           /\ wavResult(other, pcm.data, parseWAVHeader(pcm.data)) = pcm.wav

\* C23: every *WAVResult returned without error, by either transport,
\* carries in Stats.Duration the wall-clock time the call took; a successful
\* result never has a Duration that was not assigned.
DurationMeasured ==
    (pcm.pc = "done" /\ pcm.via \in {"cli", "server"} /\ pcm.result.kind = "ok")
    => /\ pcm.duration # 0
       /\ pcm.duration = pcm.elapsed

\* C24: with a LogWriter configured, a call that returns a result writes
\* exactly one summary line (byte count, elapsed time, transport) to it, on
\* the CLI and on the server transport, and a call that fails writes none.
OneSummaryPerJob ==
    (pcm.pc = "done" /\ pcm.via \in {"cli", "server"} /\ pcm.logWriter)
    => IF pcm.result.kind = "ok"
       THEN /\ Len(pcm.summary) = 1
            /\ pcm.summary[1].bytes = Len(pcm.data)
            /\ pcm.summary[1].elapsed = pcm.elapsed
            /\ pcm.summary[1].mode = pcm.via
       ELSE pcm.summary = <<>>

NoGateWhenUnlimited ==
    opts.Concurrency <= 0 =>
        /\ sem = 0
        /\ \A i \in Calls :
              /\ call[i].pc # "acquire"
              /\ ~call[i].holds
              /\ call[i].result # ErrProcessTimeout(SlotMsg)

\* with a negative Concurrency every call has its subprocess running at once
NoGateWhenUnlimitedWitness ==
    /\ opts.Concurrency < 0
    /\ \A i \in Calls : call[i].pc = "proc" /\ call[i].proc = "running"

\* xs is the last Len(xs) elements of ys
IsSuffix(xs, ys) ==
    Len(xs) <= Len(ys) /\ xs = SubSeq(ys, Len(ys) - Len(xs) + 1, Len(ys))

\* run returned ErrNonZeroExit or ErrProcessTimeout
RunFailed ==
    exc.pc = "done" /\ exc.result.kind \in {"ErrNonZeroExit", "ErrProcessTimeout"}

\* C26 (as stated): the stderr excerpt of run's ErrNonZeroExit and
\* ErrProcessTimeout is s itself when len(s) <= 512, and otherwise is at most
\* 512 bytes long and consists of the final bytes of s.
ExcerptBounded ==
    RunFailed =>
        IF Len(exc.s) <= ExcerptLimit
        THEN exc.stderr = exc.s
        ELSE Len(exc.stderr) <= ExcerptLimit /\ IsSuffix(exc.stderr, exc.s)

\* C26 (amended): the excerpt is s itself when len(s) <= 512, and otherwise
\* is the literal of truncate followed by exactly the final 512 bytes of s,
\* so its length is 512 plus the length of that literal.
ExcerptMarked ==
    RunFailed =>
        IF Len(exc.s) <= ExcerptLimit
        THEN exc.stderr = exc.s
        ELSE /\ Len(exc.stderr) = Len(Ellipsis) + ExcerptLimit
             /\ SubSeq(exc.stderr, 1, Len(Ellipsis)) = Ellipsis
             /\ SubSeq(exc.stderr, Len(Ellipsis) + 1, Len(exc.stderr))
                    = SubSeq(exc.s, Len(exc.s) - ExcerptLimit + 1, Len(exc.s))

\* a subprocess that wrote more than 512 bytes to stderr exited non-zero
ExcerptMarkedWitness ==
    /\ exc.pc = "done" /\ exc.result.kind = "ErrNonZeroExit"
    /\ Len(exc.s) > ExcerptLimit
    /\ Len(exc.stderr) > ExcerptLimit

\* C28: run waits for the process without first blocking on the stdin
\* writer and joins the writer only afterwards: it is never found in wg.Wait
\* with the process not yet waited for, so the write and the wait are never
\* serialized as write-to-completion-then-wait.
WriterJoinedAfterWait ==
    run.pc = "wgwait" => run.proc = "reaped"

\* C29: when the stdin write fails run returns a plain wrapped error, neither
\* ErrNonZeroExit nor ErrExecutableNotFound, the process is no longer running
\* (killed by run unless it had ended already) and the stdin pipe is closed;
\* the pipe is closed after a successful write as well.
StdinFailureHandled ==
    /\ (run.pc = "done" /\ run.writer = "err") =>
           /\ run.result = WrappedError("write stdin")
           /\ run.result.kind \notin {"ErrNonZeroExit", "ErrExecutableNotFound"}
           /\ run.proc # "running"
           /\ ~run.pipeOpen
    /\ run.writer = "ok" => ~run.pipeOpen

\* the subprocess closed its stdin and went on running; the write failed and
\* run killed it
StdinFailureHandledWitness ==
    /\ run.pc = "done" /\ run.writer = "err"
    /\ run.killed = "run" /\ run.proc = "exited"
    /\ ~run.pipeOpen

\* C30: the two streams are never mixed: stdoutBuf holds stdout bytes only
\* and stderrBuf and the LogWriter stderr bytes only, each in the order
\* written; a runResult's stdout is exactly what the subprocess wrote to
\* stdout; and when run returns, on success and on failure alike, every byte
\* written to stderr has been captured and, with a LogWriter, forwarded.
StreamsSeparate ==
    /\ IsPrefix(strm.stdoutBuf, strm.wroteOut)
    /\ IsPrefix(strm.stderrBuf, strm.wroteErr)
    /\ IsPrefix(strm.log, strm.wroteErr)
    /\ strm.pc = "done" =>
           /\ strm.result.kind = "runResult" => strm.stdout = strm.wroteOut
           /\ strm.stderrBuf = strm.wroteErr
           /\ strm.logWriter => strm.log = strm.wroteErr

\* C31: nothing is retried: a Client.Generate call starts at most one
\* subprocess and sends no request, a ServerClient.Generate call sends at
\* most one POST /tts and starts no subprocess, whatever error occurs, in
\* every state up to and after the call's return.
NothingRetried ==
    \A i \in Calls :
        /\ call[i].spawned <= 1 /\ call[i].requests <= 1
        /\ call[i].via = "cli" => call[i].requests = 0
        /\ call[i].via = "server" => call[i].spawned = 0

\* a CLI call failed after starting its subprocess and a server call failed
\* after sending its request
NothingRetriedWitness ==
    \E i, j \in Calls :
        /\ call[i].pc = "done" /\ call[i].via = "cli"
        /\ call[i].result.kind # "ok" /\ call[i].spawned = 1
        /\ call[j].pc = "done" /\ call[j].via = "server"
        /\ call[j].result.kind # "ok" /\ call[j].requests = 1

\* the options buildTTSRequest is given
EffectiveOptions == IF req.nilOpts THEN ZeroRequestOptions ELSE req.o

\* ServerClient.Generate got past validation
RequestBuilt == req.pc = "done" /\ ~IsBlankText(req.text)

\* C32: the body always carries the text field and at most one voice part:
\* with VoiceURL set, voice_url and no voice_wav, the file at VoiceWAVPath
\* never opened even if VoiceWAVPath is set too; with only VoiceWAVPath set,
\* the uploaded file; with neither, the text alone and no error.
OneVoicePart ==
    RequestBuilt =>
        /\ req.result = "sent" =>
               /\ "text" \in req.parts /\ req.textField = req.text
               /\ Cardinality(req.parts \ {"text"}) <= 1
        /\ IF EffectiveOptions.VoiceURL # ""
           THEN /\ req.result = "sent" /\ req.opened = 0
                /\ req.parts = {"text", "voice_url"}
                /\ req.voiceURL = EffectiveOptions.VoiceURL
           ELSE IF EffectiveOptions.VoiceWAVPath # ""
           THEN /\ req.opened = 1
                /\ IF req.file.exists
                   THEN /\ req.result = "sent"
                        /\ req.parts = {"text", "voice_wav"}
                        /\ req.fileName = Base(EffectiveOptions.VoiceWAVPath)
                        /\ req.fileBytes = req.file.bytes
                   ELSE req.result = "error" /\ req.requests = 0
           ELSE /\ req.result = "sent" /\ req.opened = 0
                /\ req.parts = {"text"}

\* both voices were set: the request went out with voice_url alone and the
\* file was not opened
OneVoicePartWitness ==
    /\ RequestBuilt
    /\ req.o.VoiceURL = "hf://o/v" /\ req.o.VoiceWAVPath = "dir/v.wav"
    /\ req.result = "sent" /\ req.parts = {"text", "voice_url"}
    /\ req.opened = 0

\* C33: with both VoiceURL and VoiceWAVPath non-empty, ServerClient.Generate
\* returns an error and sends no HTTP request.
BothVoicesRejected ==
    (/\ RequestBuilt
     /\ EffectiveOptions.VoiceURL # "" /\ EffectiveOptions.VoiceWAVPath # "")
    => req.result \notin {"sent", "none"} /\ req.requests = 0

\* the supervisor's state: the process handle and what Start and Stop keep
Lifecycle ==
    <<srv.pc, srv.proc, srv.ctxDone, srv.expired, srv.probes, srv.result,
      srv.starts, srv.spawned, srv.orphans, srv.stops, srv.stop, srv.startErr>>

\* a step of a Health or Generate call made on the ServerClient
ClientCallStep ==
    \/ \E resp \in Responses : DirectHealth(resp)
    \/ \E resp \in Responses : DirectGenerate(resp)

CancelledWhilePolling == srv.pc \in {"poll", "probe"} /\ srv.ctxDone

\* C35 (as stated): once the ctx is done while Start polls, Start returns a
\* non-nil error and the process has been killed when it returns.
CancelledStartFails ==
    [][(CancelledWhilePolling /\ srv'.pc = "idle")
          => (srv'.result # "nil" /\ srv'.proc # "running")]_vars

\* C35 (amended): once the ctx is done while Start polls, Start returns;
\* the loop-top check that finds it done returns a non-nil error with the
\* process killed and no further probe is issued; nil is returned only by
\* the probe that was in flight, when it still answers 200.
CancelAbortsStart ==
    /\ CancelledWhilePolling ~> (srv.pc = "idle" /\ srv.result # "none")
    /\ [][(CancelledWhilePolling /\ srv.pc = "poll" /\ srv'.pc # "poll")
             => /\ srv'.pc = "idle"
                /\ srv'.result \in {"ctx.Err", "not healthy in time"}
                /\ srv'.proc # "running"
                /\ srv'.procAtRet = srv'.proc]_vars
    /\ [][(CancelledWhilePolling /\ srv.pc = "probe" /\ srv'.pc = "idle")
             => (srv'.result = "nil" /\ srv'.probes = srv.probes)]_vars
    /\ [][srv'.probes > srv.probes => ~srv.ctxDone]_vars

\* Start saw its ctx done at the top of the loop and returned ctx.Err()
\* with the process killed
CancelAbortsStartWitness ==
    /\ srv.pc = "idle" /\ srv.result = "ctx.Err" /\ srv.ctxDone
    /\ srv.procAtRet = "exited" /\ srv.probes > 0

\* C36: every process this ServerClient spawned that is still alive is the
\* one s.proc refers to: no Start overwrites the handle of a running process.
HandleHoldsEveryProcess == srv.orphans = 0

\* C37: the process is bound to the ctx of its Start for its whole life: if
\* that ctx is done after Start returned nil, the process is terminated,
\* Stop or no Stop.
ProcessBoundToCtx ==
    \A n \in 1..MaxStarts :
        (/\ srv.pc = "idle" /\ srv.result = "nil" /\ srv.ctxDone
         /\ srv.proc = "running" /\ srv.spawned = n)
        ~> (srv.proc # "running" \/ srv.spawned # n)

\* Start returned nil, its ctx was cancelled afterwards, and the process is
\* gone although Stop was never called
ProcessBoundToCtxWitness ==
    /\ srv.pc = "idle" /\ srv.result = "nil" /\ srv.procAtRet = "running"
    /\ srv.ctxDone /\ srv.proc = "exited" /\ srv.stops = 0

\* a Start call has just returned because cmd.Start failed
StartFailed ==
    /\ srv.pc = "idle" /\ srv'.pc = "idle"
    /\ srv'.starts = srv.starts + 1

\* C40: when cmd.Start fails, Start returns *ErrExecutableNotFound for a
\* not-found failure and a wrapped error otherwise, sends no probe, and
\* leaves s.proc as it was before the call.
FailedSpawnFrame ==
    [][StartFailed =>
          /\ srv'.startErr \in StartErrors
          /\ srv'.result = IF srv'.startErr \in NotFoundErrors
                           THEN "ErrExecutableNotFound" ELSE "error"
          /\ srv'.probes = 0
          /\ srv'.proc = srv.proc /\ srv'.spawned = srv.spawned]_vars

\* the second Start failed with not-found while the process of the first is
\* still running under the same handle
FailedSpawnFrameWitness ==
    /\ srv.starts = 2 /\ srv.spawned = 1 /\ srv.pc = "idle"
    /\ srv.result = "ErrExecutableNotFound" /\ srv.proc = "running"
    /\ srv.probes = 0

\* calls of kind v that are past admission and have not returned
PastAdmission(v) == {i \in Calls : call[i].via = v /\ call[i].pc \in {"run", "proc"}}

\* C38: the cap is per Client: a package-level call sends on the channel of
\* its own fresh Client, so it is never kept waiting and never takes or
\* needs a slot of the shared Client; calls through the shared Client are
\* bounded by opts.Concurrency.
CapPerClient ==
    /\ \A i \in Calls :
          /\ call[i].pc = "acquireOwn" => ENABLED PkgAcquire(i)
          /\ call[i].via = "pkg" => ~call[i].holds
    /\ sem = Cardinality({i \in Calls : call[i].holds})
    /\ opts.Concurrency > 0 => Cardinality(PastAdmission("cli")) <= opts.Concurrency

\* with a cap of one, two package-level calls have their subprocesses
\* running at once
CapPerClientWitness ==
    /\ opts.Concurrency > 0
    /\ Cardinality({i \in PastAdmission("pkg") : call[i].proc = "running"})
          > opts.Concurrency

\* C39: a Client.Generate call whose ctx is done before it is admitted
\* starts no subprocess and returns no result, with or without a free
\* slot; when it returns, the slot it took, if any, is back.
DeadContextStartsNothing ==
    [][\A i \in Calls :
          (/\ call[i].via = "cli" /\ call[i].ctxDone
           /\ call[i].pc \in {"acquire", "run"})
          => /\ call'[i].pc \in {"acquire", "run", "done"}
             /\ call'[i].proc = "none" /\ call'[i].spawned = 0
             /\ call'[i].pc = "done" =>
                   /\ call'[i].result.kind \notin {"ok", "none"}
                   /\ ~call'[i].holds
                   /\ sem' = sem - (IF call[i].holds THEN 1 ELSE 0)]_vars

\* a call holds the only slot with its ctx done and no subprocess, while
\* another call has returned ErrProcessTimeout from the wait for a slot
DeadContextStartsNothingWitness ==
    \E i, j \in Calls :
        /\ call[i].pc = "run" /\ call[i].via = "cli" /\ call[i].ctxDone
        /\ call[i].holds /\ call[i].spawned = 0 /\ sem = opts.Concurrency
        /\ call[j].pc = "done" /\ call[j].result = ErrProcessTimeout(SlotMsg)
        /\ call[j].spawned = 0

====
